---- MODULE Spec2Model ----
(***************************************************************************)
(* Graph editor: the node/port/link store (store.ts), the connection       *)
(* validator (canConnectTypes, canConnect, validateConnections) and the    *)
(* editor operations that mutate the graph (graph-editor.ts,               *)
(* mouse-handler.ts).                                                      *)
(*                                                                         *)
(* Objects.  A node object is a record; its field `ref` is the object's    *)
(* identity (JavaScript ===), its field `id` is GraphNode.id.  The two are *)
(* different things: loadGraph copies ids from the document, so two node   *)
(* objects may carry one id.  A link object is a record too, but two link  *)
(* objects may be equal field by field, so wherever the code compares link *)
(* objects by identity the model works on positions in store.links.        *)
(*                                                                         *)
(* Not part of the state: geometry (positions, hit testing) and the        *)
(* selection flags.  The pointer layer can select any subset of the        *)
(* current nodes and links and can start a drag on any port, so the        *)
(* handlers that read the selection or a dragged port draw it as an input. *)
(***************************************************************************)
EXTENDS Integers, Sequences, FiniteSets, TLC

VARIABLES
  registryLoaded,   \* store.registryLoaded
  nodeCategories,   \* store.nodeCategories : category -> type -> definition
  nodes,            \* store.nodes
  links,            \* store.links
  nodeIdCounter,    \* store.nodeIdCounter
  linkIdCounter,    \* store.linkIdCounter
  removedLinks,     \* what validateConnections returned to the last _emitGraphChanged
  gen,              \* the CodeGenerator.generate() call in progress, if any
  idLog             \* history: the ids the nodes of this editor have been given

vars == <<registryLoaded, nodeCategories, nodes, links, nodeIdCounter,
          linkIdCounter, removedLinks, gen, idLog>>

-----------------------------------------------------------------------------
(* Bounds *)

MaxNodes == 3        \* addNode / menu creation stop at this many nodes
MaxCounter == 3      \* the id counters stop growing here
MaxDocNodes == 2     \* nodes in a loaded graph document
MaxDocConns == 2     \* connections in a loaded graph document
MaxStoreLinks == 3   \* links in a directly populated store
MaxSelLinks == 1     \* links selected when Delete is pressed
MaxCatalogNodes == 2 \* nodes in the editor with several registries

NULL == [none |-> TRUE]

SeqUpTo(S, n) == UNION {[1..k -> S] : k \in 0..n}

Indices(s) == [i \in 1..Len(s) |-> i]

Range(s) == {s[i] : i \in DOMAIN s}

-----------------------------------------------------------------------------
(* The node type catalog handed to addRegistry *)

Port(kind, name) == [type |-> kind, name |-> name]

FlowDef ==
  [inputs  |-> <<Port("exec", "in"), Port("float", "a")>>,
   outputs |-> <<Port("exec", "next"), Port("float", "r")>>]

AnyDef ==
  [inputs  |-> <<Port("data", "d")>>,
   outputs |-> <<Port("data", "o")>>,
   value   |-> [type |-> "float", default |-> 0]]

BaseRegistry == [basic |-> [flow |-> FlowDef, any |-> AnyDef]]

\* a registry has a nodeCategories part, a (legacy) nodeTypes part, or both
Registries == {[nodeCategories |-> BaseRegistry]}

Categories == {"basic"}

TypeNames == {"flow", "any", "missing"}

-----------------------------------------------------------------------------
(* store.ts *)

\* canConnectTypes with the 'data' wildcard taken on either side
canConnectTypes_eitherData(fromType, toType) ==
  IF fromType = "exec" \/ toType = "exec" THEN fromType = "exec" /\ toType = "exec"
  ELSE fromType = toType \/ toType = "data" \/ fromType = "data"

canConnectTypes(fromType, toType) ==
  IF fromType = "exec" /\ toType = "exec" THEN TRUE
  ELSE IF fromType = "exec" \/ toType = "exec" THEN FALSE
  ELSE IF fromType = toType THEN TRUE
  ELSE IF toType = "data" THEN TRUE
  ELSE IF fromType = "data" /\ toType # "data" THEN FALSE
  ELSE FALSE

\* canConnect with `from` taken as the output and `to` as the input, as given
canConnect_asGiven(ls, from, to) ==
  IF from.node = to.node THEN FALSE
  ELSE IF from.type = to.type THEN FALSE
  ELSE
    LET exactConnectionExists ==
          \E i \in DOMAIN ls :
            \/ /\ ls[i].fromPort.node = from.node
               /\ ls[i].fromPort.index = from.index
               /\ ls[i].toPort.node = to.node
               /\ ls[i].toPort.index = to.index
            \/ /\ ls[i].fromPort.node = to.node
               /\ ls[i].fromPort.index = to.index
               /\ ls[i].toPort.node = from.node
               /\ ls[i].toPort.index = from.index
        hasExistingInputConnection ==
          \E i \in DOMAIN ls :
            /\ ls[i].toPort.node = to.node
            /\ ls[i].toPort.index = to.index
            /\ ls[i].toPort.type = "input"
    IN IF ~canConnectTypes(from.port.type, to.port.type) THEN FALSE
       ELSE IF exactConnectionExists THEN FALSE
       ELSE IF to.port.type # "exec" /\ hasExistingInputConnection THEN FALSE
       ELSE TRUE

canConnect(ls, from, to) ==
  IF from.node = to.node THEN FALSE
  ELSE IF from.type = to.type THEN FALSE
  ELSE
    LET outputPort == IF from.type = "output" THEN from ELSE to
        inputPort  == IF from.type = "input" THEN from ELSE to
        exactConnectionExists ==
          \E i \in DOMAIN ls :
            \/ /\ ls[i].fromPort.node = outputPort.node
               /\ ls[i].fromPort.index = outputPort.index
               /\ ls[i].toPort.node = inputPort.node
               /\ ls[i].toPort.index = inputPort.index
            \/ /\ ls[i].fromPort.node = inputPort.node
               /\ ls[i].fromPort.index = inputPort.index
               /\ ls[i].toPort.node = outputPort.node
               /\ ls[i].toPort.index = outputPort.index
        hasExistingInputConnection ==
          \E i \in DOMAIN ls :
            /\ ls[i].toPort.node = inputPort.node
            /\ ls[i].toPort.index = inputPort.index
            /\ ls[i].toPort.type = "input"
    IN IF ~canConnectTypes(outputPort.port.type, inputPort.port.type) THEN FALSE
       ELSE IF exactConnectionExists THEN FALSE
       ELSE IF inputPort.port.type # "exec" /\ hasExistingInputConnection THEN FALSE
       ELSE TRUE

\* nodeExists with the membership test dropped
nodeExists_always(ns, n) == TRUE

nodeExists(ns, n) == \E i \in DOMAIN ns : ns[i] = n

\* isValid with the canConnectTypes check dropped
isValid_nodesOnly(ns, l) ==
  nodeExists(ns, l.fromPort.node) /\ nodeExists(ns, l.toPort.node)

\* isValid at the end of the first two checks of the loop body
isValid(ns, l) ==
  /\ nodeExists(ns, l.fromPort.node) /\ nodeExists(ns, l.toPort.node)
  /\ canConnectTypes(l.fromPort.port.type, l.toPort.port.type)

\* no link is ever pushed on execOutputConnections
tracksExecOutput_never(ns, l) == FALSE

\* the link is pushed on execOutputConnections
tracksExecOutput(ns, l) == isValid(ns, l) /\ l.fromPort.port.type = "exec"

\* no link is ever pushed on dataInputConnections
tracksDataInput_never(ns, l) == FALSE

\* the link is pushed on dataInputConnections
tracksDataInput(ns, l) == isValid(ns, l) /\ l.toPort.port.type # "exec"

\* the map keys `${node.id}-${index}`, as pairs
execOutputKey(l) == <<l.fromPort.node.id, l.fromPort.index>>

dataInputKey(l) == <<l.toPort.node.id, l.toPort.index>>

tracked(ns, ls, which, i) ==
  IF which = "exec" THEN tracksExecOutput(ns, ls[i]) ELSE tracksDataInput(ns, ls[i])

keyOf(which, l) == IF which = "exec" THEN execOutputKey(l) ELSE dataInputKey(l)

\* positions of the links stored under one map key, in push order
group(ns, ls, which, key) ==
  SelectSeq(Indices(ls),
            LAMBDA i : tracked(ns, ls, which, i) /\ keyOf(which, ls[i]) = key)

\* position i created its map entry (map iteration is in insertion order)
createsKey(ns, ls, which, i) ==
  /\ tracked(ns, ls, which, i)
  /\ \A j \in 1..(i - 1) :
       ~(tracked(ns, ls, which, j) /\ keyOf(which, ls[j]) = keyOf(which, ls[i]))

\* the loop over a group stops after its second link
laterInGroup_second(ns, ls, which, key) ==
  LET g == group(ns, ls, which, key)
  IN IF Len(g) >= 2 THEN <<g[2]>> ELSE <<>>

\* the loop over a group never runs
laterInGroup_none(ns, ls, which, key) == <<>>

\* for (let i = 1; i < links.length; i++): all of a group but its first link
laterInGroup(ns, ls, which, key) == Tail(group(ns, ls, which, key))

\* if (!invalidLinks.includes(x)) invalidLinks.push(x), for each x of xs
RECURSIVE pushNew(_, _)
pushNew(invalid, xs) ==
  IF xs = <<>> THEN invalid
  ELSE pushNew(IF Head(xs) \in Range(invalid) THEN invalid
               ELSE Append(invalid, Head(xs)),
               Tail(xs))

\* one of the two "keep only the first one" loops
RECURSIVE markDuplicates(_, _, _, _, _)
markDuplicates(ns, ls, which, i, invalid) ==
  IF i > Len(ls) THEN invalid
  ELSE markDuplicates(ns, ls, which, i + 1,
         IF createsKey(ns, ls, which, i)
         THEN pushNew(invalid, laterInGroup(ns, ls, which, keyOf(which, ls[i])))
         ELSE invalid)

\* invalidLinks, as positions in store.links, in push order
invalidLinks(ns, ls) ==
  LET firstPass == SelectSeq(Indices(ls), LAMBDA i : ~isValid(ns, ls[i]))
      execPass  == markDuplicates(ns, ls, "exec", 1, firstPass)
  IN markDuplicates(ns, ls, "data", 1, execPass)

SubSeqAt(s, idx) == [k \in 1..Len(idx) |-> s[idx[k]]]

\* validateConnections: the new store.links, the returned list, and the
\* positions of the links that stay
validateConnections(ns, ls) ==
  LET invalid == invalidLinks(ns, ls)
      kept    == SelectSeq(Indices(ls), LAMBDA i : i \notin Range(invalid))
  IN [links   |-> SubSeqAt(ls, kept),
      removed |-> SubSeqAt(ls, invalid),
      kept    |-> kept]

-----------------------------------------------------------------------------
(* models/GraphNode.ts, models/GraphLink.ts *)

HasDef(category, type) ==
  /\ registryLoaded
  /\ category \in DOMAIN nodeCategories
  /\ type \in DOMAIN nodeCategories[category]

\* port.implicit
isImplicit(port) == "implicit" \in DOMAIN port /\ port.implicit

\* def.inputs?.filter(port => !port.implicit): the ports are copied
explicitPorts(ports) == SelectSeq(ports, LAMBDA port : ~isImplicit(port))

\* the node object built when the catalog lookup succeeds; value = NULL
\* stands for a node without the field
GraphNodeImpl(ref, id, category, type) ==
  LET def == nodeCategories[category][type]
  IN [ref      |-> ref,
      id       |-> id,
      category |-> category,
      type     |-> type,
      hasValue |-> "value" \in DOMAIN def,
      value    |-> IF "value" \in DOMAIN def THEN def.value.default ELSE NULL,
      inputs   |-> explicitPorts(def.inputs),
      outputs  |-> explicitPorts(def.outputs)]

GraphLinkImpl(id, fromPortInfo, toPortInfo) ==
  [id |-> id, fromPort |-> fromPortInfo, toPort |-> toPortInfo]

\* identity of a new object: not the identity of any object of the graph
FreshRef(ns) ==
  CHOOSE r \in 0..Len(ns) : /\ \A i \in DOMAIN ns : ns[i].ref # r
                            /\ \A q \in 0..(r - 1) : \E i \in DOMAIN ns : ns[i].ref = q

PortInfo(node, dir, index) ==
  [node  |-> node,
   type  |-> dir,
   index |-> index,
   port  |-> IF dir = "output" THEN node.outputs[index + 1]
             ELSE node.inputs[index + 1]]

\* what node.portAt can return
PortsOf(node) ==
  {PortInfo(node, "input", i - 1) : i \in DOMAIN node.inputs}
    \cup {PortInfo(node, "output", i - 1) : i \in DOMAIN node.outputs}

GraphPorts(ns) == UNION {PortsOf(ns[i]) : i \in DOMAIN ns}

-----------------------------------------------------------------------------
(* graph-editor.ts: the public API and the handlers that change the graph *)

\* addRegistry, nodeCategories part, with Object.assign's arguments swapped:
\* the store's entry wins
mergeCategories_keepOld(store, registry) ==
  [c \in DOMAIN store \cup DOMAIN registry |->
     IF c \notin DOMAIN store THEN registry[c]
     ELSE IF c \in DOMAIN registry THEN store[c] @@ registry[c]
     ELSE store[c]]

\* addRegistry, nodeCategories part: a new category is taken whole, an
\* existing one gets the registry's node types assigned over its own
mergeCategories(store, registry) ==
  [c \in DOMAIN store \cup DOMAIN registry |->
     IF c \notin DOMAIN store THEN registry[c]
     ELSE IF c \in DOMAIN registry THEN registry[c] @@ store[c]
     ELSE store[c]]

\* typeDef.category || "default"
categoryOf(typeDef) ==
  IF "category" \in DOMAIN typeDef THEN typeDef.category ELSE "default"

\* addRegistry, nodeTypes part: each definition is put under its category,
\* which is created when the store does not have it
mergeNodeTypes(store, nodeTypes) ==
  LET cats == {categoryOf(nodeTypes[t]) : t \in DOMAIN nodeTypes}
  IN [c \in DOMAIN store \cup cats |->
        LET mine == {t \in DOMAIN nodeTypes : categoryOf(nodeTypes[t]) = c}
            had  == IF c \in DOMAIN store THEN store[c] ELSE <<>>
        IN [t \in mine |-> nodeTypes[t]] @@ had]

\* store.nodeCategories after addRegistry(registry)
addRegistry(store, registry) ==
  LET merged == IF "nodeCategories" \in DOMAIN registry
                THEN mergeCategories(store, registry.nodeCategories)
                ELSE store
  IN IF "nodeTypes" \in DOMAIN registry
     THEN mergeNodeTypes(merged, registry.nodeTypes)
     ELSE merged

\* loadGraph's first loop without `if (sNode.id >= nodeIdCounter) ...`
RECURSIVE loadNodes_counterKept(_, _, _)
loadNodes_counterKept(sNodes, k, st) ==
  IF k > Len(sNodes) THEN st
  ELSE
    LET sNode   == sNodes[k]
        counter == st.nodeIdCounter + 1
    IN IF ~HasDef(sNode.category, sNode.type)
       THEN loadNodes_counterKept(sNodes, k + 1,
                                  [st EXCEPT !.nodeIdCounter = counter])
       ELSE
         LET built == GraphNodeImpl(FreshRef(st.nodes), sNode.id,
                                    sNode.category, sNode.type)
             node  == IF "value" \in DOMAIN sNode
                      THEN [built EXCEPT !.value = sNode.value]
                      ELSE built
         IN loadNodes_counterKept(sNodes, k + 1,
              [nodes         |-> Append(st.nodes, node),
               nodeIdCounter |-> counter,
               nodeMap       |-> (sNode.id :> node) @@ st.nodeMap])

\* loadGraph, first loop.  st = [nodes, nodeIdCounter, nodeMap]
RECURSIVE loadNodes(_, _, _)
loadNodes(sNodes, k, st) ==
  IF k > Len(sNodes) THEN st
  ELSE
    LET sNode   == sNodes[k]
        counter == st.nodeIdCounter + 1   \* nextNodeId() in the constructor
    IN IF ~HasDef(sNode.category, sNode.type)
       THEN \* the constructor throws, the catch block warns
            loadNodes(sNodes, k + 1, [st EXCEPT !.nodeIdCounter = counter])
       ELSE
         LET built == GraphNodeImpl(FreshRef(st.nodes), sNode.id,
                                    sNode.category, sNode.type)
             node  == IF "value" \in DOMAIN sNode
                      THEN [built EXCEPT !.value = sNode.value]
                      ELSE built
         IN loadNodes(sNodes, k + 1,
              [nodes         |-> Append(st.nodes, node),
               nodeIdCounter |-> IF sNode.id >= counter THEN sNode.id + 1
                                 ELSE counter,
               nodeMap       |-> (sNode.id :> node) @@ st.nodeMap])

\* node.outputs?.[portIndex] / node.inputs?.[portIndex] is defined
hasPort(node, portType, portIndex) ==
  IF portType = "output" THEN portIndex + 1 \in DOMAIN node.outputs
  ELSE portIndex + 1 \in DOMAIN node.inputs

\* loadGraph's second loop without `if (sConn.id >= linkIdCounter) ...`
RECURSIVE loadConnections_counterKept(_, _, _, _)
loadConnections_counterKept(sConns, k, nodeMap, st) ==
  IF k > Len(sConns) THEN st
  ELSE
    LET sConn == sConns[k]
    IN IF sConn.from.nodeId \notin DOMAIN nodeMap
            \/ sConn.to.nodeId \notin DOMAIN nodeMap
       THEN loadConnections_counterKept(sConns, k + 1, nodeMap, st)
       ELSE
         LET fromNode == nodeMap[sConn.from.nodeId]
             toNode   == nodeMap[sConn.to.nodeId]
         IN IF ~hasPort(fromNode, sConn.from.portType, sConn.from.portIndex)
                 \/ ~hasPort(toNode, sConn.to.portType, sConn.to.portIndex)
            THEN loadConnections_counterKept(sConns, k + 1, nodeMap, st)
            ELSE
              LET link == GraphLinkImpl(sConn.id,
                            PortInfo(fromNode, sConn.from.portType, sConn.from.portIndex),
                            PortInfo(toNode, sConn.to.portType, sConn.to.portIndex))
              IN loadConnections_counterKept(sConns, k + 1, nodeMap,
                   [links         |-> Append(st.links, link),
                    linkIdCounter |-> st.linkIdCounter + 1])

\* loadGraph, second loop.  st = [links, linkIdCounter]
RECURSIVE loadConnections(_, _, _, _)
loadConnections(sConns, k, nodeMap, st) ==
  IF k > Len(sConns) THEN st
  ELSE
    LET sConn == sConns[k]
    IN IF sConn.from.nodeId \notin DOMAIN nodeMap
            \/ sConn.to.nodeId \notin DOMAIN nodeMap
       THEN loadConnections(sConns, k + 1, nodeMap, st)
       ELSE
         LET fromNode == nodeMap[sConn.from.nodeId]
             toNode   == nodeMap[sConn.to.nodeId]
         IN IF ~hasPort(fromNode, sConn.from.portType, sConn.from.portIndex)
                 \/ ~hasPort(toNode, sConn.to.portType, sConn.to.portIndex)
            THEN loadConnections(sConns, k + 1, nodeMap, st)
            ELSE
              LET link == GraphLinkImpl(sConn.id,
                            PortInfo(fromNode, sConn.from.portType, sConn.from.portIndex),
                            PortInfo(toNode, sConn.to.portType, sConn.to.portIndex))
                  counter == st.linkIdCounter + 1   \* nextLinkId()
              IN loadConnections(sConns, k + 1, nodeMap,
                   [links         |-> Append(st.links, link),
                    linkIdCounter |-> IF sConn.id >= counter THEN sConn.id + 1
                                      ELSE counter])

\* loadGraph up to the call of _emitGraphChanged
loadGraph(graph) ==
  LET afterNodes == loadNodes(graph.nodes, 1,
                      [nodes |-> <<>>, nodeIdCounter |-> 0, nodeMap |-> <<>>])
      afterConns == loadConnections(graph.connections, 1, afterNodes.nodeMap,
                      [links |-> <<>>, linkIdCounter |-> 0])
  IN [nodes         |-> afterNodes.nodes,
      nodeIdCounter |-> afterNodes.nodeIdCounter,
      links         |-> afterConns.links,
      linkIdCounter |-> afterConns.linkIdCounter]

\* _hasCompatiblePort and the isCompatible test of _autoConnectToNewNode
isCompatible(targetType, sourceType) ==
  IF targetType = "exec" \/ sourceType = "exec"
  THEN targetType = "exec" /\ sourceType = "exec"
  ELSE targetType = sourceType \/ targetType = "data" \/ sourceType = "data"

hasCompatiblePort(nodeDef, sourcePort) ==
  LET targetPorts == IF sourcePort.type = "output" THEN nodeDef.inputs
                     ELSE nodeDef.outputs
  IN \E i \in DOMAIN targetPorts :
       isCompatible(targetPorts[i].type, sourcePort.port.type)

\* _autoConnectToNewNode, the pair of ports it connects: the source port and
\* the first compatible port of the new node; NULL when there is none
autoConnectPorts(newNode, sourcePort) ==
  LET targetPorts == IF sourcePort.type = "output" THEN newNode.inputs
                     ELSE newNode.outputs
      compatible  == {i \in DOMAIN targetPorts :
                        isCompatible(targetPorts[i].type, sourcePort.port.type)}
  IN IF compatible = {} THEN NULL
     ELSE LET i == CHOOSE c \in compatible : \A d \in compatible : c <= d
          IN IF sourcePort.type = "output"
             THEN [fromPort |-> sourcePort,
                   toPort   |-> PortInfo(newNode, "input", i - 1)]
             ELSE [fromPort |-> PortInfo(newNode, "output", i - 1),
                   toPort   |-> sourcePort]

\* _autoConnectToNewNode.  Result: [links, linkIdCounter, emitted, removed]
autoConnectToNewNode(ns, ls, linkCounter, newNode, sourcePort) ==
  LET targetPorts == IF sourcePort.type = "output" THEN newNode.inputs
                     ELSE newNode.outputs
      compatible  == {i \in DOMAIN targetPorts :
                        isCompatible(targetPorts[i].type, sourcePort.port.type)}
  IN IF compatible = {}
     THEN [links |-> ls, linkIdCounter |-> linkCounter,
           emitted |-> FALSE, removed |-> <<>>]
     ELSE
       LET i == CHOOSE c \in compatible : \A d \in compatible : c <= d
           fromPort == IF sourcePort.type = "output" THEN sourcePort
                       ELSE PortInfo(newNode, "output", i - 1)
           toPort   == IF sourcePort.type = "output"
                       THEN PortInfo(newNode, "input", i - 1)
                       ELSE sourcePort
           afterInput ==
             IF toPort.type = "input"
             THEN SelectSeq(ls, LAMBDA l :
                    ~(/\ l.toPort.node = toPort.node
                      /\ l.toPort.index = toPort.index
                      /\ l.toPort.type = "input"))
             ELSE ls
           afterExec ==
             IF fromPort.type = "output" /\ fromPort.port.type = "exec"
             THEN SelectSeq(afterInput, LAMBDA l :
                    ~(/\ l.fromPort.node = fromPort.node
                      /\ l.fromPort.index = fromPort.index
                      /\ l.fromPort.type = "output"
                      /\ l.fromPort.port.type = "exec"))
             ELSE afterInput
           newLink == GraphLinkImpl(linkCounter, fromPort, toPort)
           v == validateConnections(ns, Append(afterExec, newLink))
       IN [links |-> v.links, linkIdCounter |-> linkCounter + 1,
           emitted |-> TRUE, removed |-> v.removed]

\* _deleteSelectedNodes with `sel` the selected node objects.
\* Result: the store after it, and the positions of the links that stay
deleteSelectedNodes(ns, ls, sel) ==
  IF sel = {}
  THEN [nodes |-> ns, links |-> ls, kept |-> Indices(ls),
        emitted |-> FALSE, removed |-> <<>>]
  ELSE
    LET nodeIdsToDelete == {n.id : n \in sel}
        pos == SelectSeq(Indices(ls), LAMBDA i :
                 /\ ls[i].fromPort.node.id \notin nodeIdsToDelete
                 /\ ls[i].toPort.node.id \notin nodeIdsToDelete)
        ns1 == SelectSeq(ns, LAMBDA n : n.id \notin nodeIdsToDelete)
        v   == validateConnections(ns1, SubSeqAt(ls, pos))
    IN [nodes |-> ns1, links |-> v.links, kept |-> SubSeqAt(pos, v.kept),
        emitted |-> TRUE, removed |-> v.removed]

\* _deleteSelectedLinks with `selPos` the positions of the selected links
deleteSelectedLinks(ns, ls, selPos) ==
  IF selPos = {}
  THEN [links |-> ls, emitted |-> FALSE, removed |-> <<>>]
  ELSE
    LET v == validateConnections(ns,
               SubSeqAt(ls, SelectSeq(Indices(ls), LAMBDA i : i \notin selPos)))
    IN [links |-> v.links, emitted |-> TRUE, removed |-> v.removed]

\* _createConnection without the removal of the exec output's old link
createConnection_append(ls, linkCounter, a, b) ==
  LET from == IF a.type = "input" THEN b ELSE a
      to   == IF a.type = "input" THEN a ELSE b
  IN Append(ls, GraphLinkImpl(linkCounter, from, to))

\* MouseHandler._createConnection up to the call of onGraphChanged
createConnection(ls, linkCounter, a, b) ==
  LET from == IF a.type = "input" THEN b ELSE a
      to   == IF a.type = "input" THEN a ELSE b
      afterExec ==
        IF from.port.type = "exec"
        THEN SelectSeq(ls, LAMBDA l :
               ~(/\ l.fromPort.node = from.node
                 /\ l.fromPort.index = from.index
                 /\ l.fromPort.type = "output"))
        ELSE ls
  IN Append(afterExec, GraphLinkImpl(linkCounter, from, to))

-----------------------------------------------------------------------------
(* Text.  A JavaScript string is a sequence of symbols: a symbol is one of   *)
(* the characters the generator's patterns look at ("$", "{", "}", newline,  *)
(* blank, tab, "&", "'", the grave accent) or a word, a run of other        *)
(* characters taken as a whole ("run(", a port name, the digits of an id).   *)

NL == "\n"

\* the grave accent
GRAVE == "grave"

\* Op applied to the value of v
Bind(v, Op(_)) == CHOOSE r \in {Op(x) : x \in {v}} : TRUE

\* the template literal `\${${name}}`
Placeholder(name) == <<"$", "{", name, "}">>

\* the word pat is at position i of code
MatchesAt(code, i, pat) ==
  /\ i + Len(pat) - 1 <= Len(code)
  /\ \A k \in DOMAIN pat : code[i + k - 1] = pat[k]

\* String(n) of a number
NumberText(n) == <<ToString(n)>>

\* String(node.value): a value of the model is a number [num |-> n] or a
\* string [str |-> text]
ValueText(v) == IF "num" \in DOMAIN v THEN NumberText(v.num) ELSE v.str

\* the replacement text of String.prototype.replace for a replacement given
\* as a string (no capture group in the pattern): "$$" is "$", "$&" the
\* match, "$" and a grave accent the text before the match, "$'" the text
\* after it
RECURSIVE getSubstitution(_, _, _, _)
getSubstitution(repl, matched, before, after) ==
  IF repl = <<>> THEN <<>>
  ELSE IF Len(repl) >= 2 /\ repl[1] = "$" /\ repl[2] \in {"$", "&", GRAVE, "'"}
  THEN (CASE repl[2] = "$" -> <<"$">>
          [] repl[2] = "&" -> matched
          [] repl[2] = GRAVE -> before
          [] repl[2] = "'" -> after)
       \o getSubstitution(SubSeq(repl, 3, Len(repl)), matched, before, after)
  ELSE <<repl[1]>> \o getSubstitution(Tail(repl), matched, before, after)

\* code.replace(new RegExp(escapeRegExp(pat), 'g'), repl) from position i on:
\* one pass from left to right, the text put in is not searched again
RECURSIVE replaceFrom(_, _, _, _)
replaceFrom(code, i, pat, repl) ==
  IF i > Len(code) THEN <<>>
  ELSE IF MatchesAt(code, i, pat)
  THEN getSubstitution(repl, pat, SubSeq(code, 1, i - 1),
                       SubSeq(code, i + Len(pat), Len(code)))
       \o replaceFrom(code, i + Len(pat), pat, repl)
  ELSE <<code[i]>> \o replaceFrom(code, i + 1, pat, repl)

replaceAll(code, pat, repl) ==
  Bind(<<code, pat, repl>>, LAMBDA a : replaceFrom(a[1], 1, a[2], a[3]))

\* [\t ]* at position i: the number of blanks and tabs from there on
RECURSIVE blankRun(_, _)
blankRun(code, i) ==
  IF i <= Len(code) /\ code[i] \in {" ", "\t"} THEN 1 + blankRun(code, i + 1)
  ELSE 0

\* next.split('\n').map(line => ind + line).join('\n')
RECURSIVE afterEachNewline(_, _)
afterEachNewline(next, ind) ==
  IF next = <<>> THEN <<>>
  ELSE IF Head(next) = NL THEN <<NL>> \o ind \o afterEachNewline(Tail(next), ind)
  ELSE <<Head(next)>> \o afterEachNewline(Tail(next), ind)

\* the prefix put before the first line only
indentLines_firstLineOnly(next, ind) == ind \o next

indentLines(next, ind) == ind \o afterEachNewline(next, ind)

\* the replace of the exec-output loop from position i on: the pattern is
\* (\n)?([\t ]*) and the placeholder, the replacer a function
RECURSIVE spliceFrom(_, _, _, _)
spliceFrom(code, i, ph, next) ==
  IF i > Len(code) THEN <<>>
  ELSE
    LET nl  == IF code[i] = NL THEN 1 ELSE 0
        at  == i + nl + blankRun(code, i + nl)
    IN IF MatchesAt(code, at, ph)
       THEN (IF next = <<>> THEN <<>>
             ELSE SubSeq(code, i, i + nl - 1)
                  \o indentLines(next, SubSeq(code, i + nl, at - 1)))
            \o spliceFrom(code, at + Len(ph), ph, next)
       ELSE <<code[i]>> \o spliceFrom(code, i + 1, ph, next)

splice(code, ph, next) ==
  Bind(<<code, ph, next>>, LAMBDA a : spliceFrom(a[1], 1, a[2], a[3]))

\* the first "}" at position i or later, 0 when there is none
firstClose(code, i) ==
  IF \E p \in i..Len(code) : code[p] = "}"
  THEN CHOOSE p \in i..Len(code) :
         code[p] = "}" /\ \A q \in i..(p - 1) : code[q] # "}"
  ELSE 0

\* \$\{[^}]+\} at position i: the position of its "}", 0 when it is not there
placeholderEnd(code, i) ==
  IF MatchesAt(code, i, <<"$", "{">>)
  THEN LET p == firstClose(code, i + 2) IN IF p >= i + 3 THEN p ELSE 0
  ELSE 0

\* code.replace(/\n[ \t]*\$\{[^}]+\}/g, '') from position i on
RECURSIVE stripLinesFrom(_, _)
stripLinesFrom(code, i) ==
  IF i > Len(code) THEN <<>>
  ELSE
    LET end == IF code[i] = NL
               THEN placeholderEnd(code, i + 1 + blankRun(code, i + 1))
               ELSE 0
    IN IF end > 0 THEN stripLinesFrom(code, end + 1)
       ELSE <<code[i]>> \o stripLinesFrom(code, i + 1)

\* code.replace(/\$\{[^}]+\}/g, '') from position i on
RECURSIVE stripFrom(_, _)
stripFrom(code, i) ==
  IF i > Len(code) THEN <<>>
  ELSE LET end == placeholderEnd(code, i)
       IN IF end > 0 THEN stripFrom(code, end + 1)
          ELSE <<code[i]>> \o stripFrom(code, i + 1)

\* the last statement of generateNodeCode before its return
stripPlaceholders(code) ==
  Bind(Bind(code, LAMBDA c : stripLinesFrom(c, 1)), LAMBDA c : stripFrom(c, 1))

\* code.replace(/\$\{nodeId\}/g, String(node.id))
replaceNodeId(code, id) == replaceAll(code, Placeholder("nodeId"), NumberText(id))

\* `if (node.hasValue && node.value !== undefined) code = code.replace(...)`
replaceValue(code, node) ==
  IF node.hasValue /\ node.value # NULL
  THEN replaceAll(code, Placeholder("value"), ValueText(node.value))
  ELSE code

-----------------------------------------------------------------------------
(* codegen.ts: CodeGenerator.  generate() is synchronous and recursive; the  *)
(* model keeps its call stack in `gen` and runs it one call or return at a   *)
(* time, with the editor's handlers waiting until it has returned.  A frame  *)
(* holds the local `code` of its call and the link its loop is at; `parts`   *)
(* is the array entries.map has built so far, `buf` the text generate()      *)
(* returns, `returned` the last value a call has returned.                   *)

\* no generate() call in progress
GenIdle ==
  [status |-> "idle", entries |-> <<>>, stack |-> <<>>, processed |-> {},
   expanded |-> <<>>, parts |-> <<>>, buf |-> <<>>, returned |-> NULL]

\* Array.prototype.find: the first element that satisfies Test, or NULL
Find(s, Test(_)) ==
  IF \E i \in DOMAIN s : Test(s[i])
  THEN s[CHOOSE i \in DOMAIN s : Test(s[i]) /\ \A j \in 1..(i - 1) : ~Test(s[j])]
  ELSE NULL

\* typeof port.code === 'string'
hasCode(port) == "code" \in DOMAIN port

\* the category names of the catalogs the generator runs on, in the order
\* their registries are written: `for (const c in nodeCategories)` goes
\* through the keys in the order they were added, and each of these catalogs
\* is added by one addRegistry call
CategoryKeys == <<"gen", "text", "first", "second", "outs", "flow">>

\* findNodeType: the definition of the type name in the first category, in
\* key order, that has it
findNodeType(type) ==
  LET cs == SelectSeq(CategoryKeys, LAMBDA c :
              c \in DOMAIN nodeCategories /\ type \in DOMAIN nodeCategories[c])
  IN IF cs = <<>> THEN NULL ELSE nodeCategories[Head(cs)][type]

\* the filter of generate() without the test for an incoming exec link
isEntry_anyExecInput(n) ==
  LET def == findNodeType(n.type)
  IN /\ def # NULL
     /\ \E i \in DOMAIN def.inputs : def.inputs[i].type = "exec"

\* the filter of generate() with the links that start at the node itself
\* left out of the test for an incoming exec link
isEntry_ownLinksLeftOut(n) ==
  LET def == findNodeType(n.type)
  IN /\ def # NULL
     /\ \E i \in DOMAIN def.inputs : def.inputs[i].type = "exec"
     /\ ~\E i \in DOMAIN links :
           /\ links[i].toPort.node = n /\ links[i].toPort.port.type = "exec"
           /\ links[i].fromPort.node # n

\* the filter of generate(): the definition has an exec input and no link
\* ends at an exec port of the node
isEntry(n) ==
  LET def == findNodeType(n.type)
  IN /\ def # NULL
     /\ \E i \in DOMAIN def.inputs : def.inputs[i].type = "exec"
     /\ ~\E i \in DOMAIN links :
           links[i].toPort.node = n /\ links[i].toPort.port.type = "exec"

\* the links a node's data-input loop goes through, as positions
dataInputLinks(n) ==
  SelectSeq(Indices(links), LAMBDA i :
    links[i].toPort.node = n /\ links[i].toPort.port.type # "exec")

\* the links a node's exec-output loop goes through, as positions
execOutputLinks(n) ==
  SelectSeq(Indices(links), LAMBDA i :
    links[i].fromPort.node = n /\ links[i].fromPort.port.type = "exec")

\* the frame on top of the stack
top(g) == g.stack[Len(g.stack)]

\* the frame on top has gone on to the next link of its data-input loop
nextData(g) ==
  [g EXCEPT !.stack[Len(g.stack)] =
     [@ EXCEPT !.data = Tail(@), !.loop = "data", !.at = Head(top(g).data)]]

\* the frame on top has gone on to the next link of its exec-output loop
nextExec(g) ==
  [g EXCEPT !.stack[Len(g.stack)] =
     [@ EXCEPT !.exec = Tail(@), !.loop = "exec", !.at = Head(top(g).exec)]]

\* a call has returned ret: the frame on top puts it in its code for the
\* placeholder of the link its loop is at (the data-input loops with a string
\* as the replacement, the exec-output loop with a function); with no frame
\* the caller is entries.map
deliver(g, ret) ==
  IF g.stack = <<>> THEN [g EXCEPT !.parts = Append(@, ret)]
  ELSE
    LET f == top(g)
        l == links[f.at]
    IN IF f.loop = "data"
       THEN [g EXCEPT !.stack[Len(g.stack)].code =
               replaceAll(@, Placeholder(l.toPort.port.name), ret)]
       ELSE [g EXCEPT !.stack[Len(g.stack)].code =
               splice(@, Placeholder(l.fromPort.port.name), ret)]

\* a call returns ret without having gone one level deeper
returnAtOnce(g, kind, n, port, ret) ==
  deliver([g EXCEPT !.returned = [kind |-> kind, node |-> n, port |-> port,
                                  code |-> ret]], ret)

\* frames the call stack of the model holds: more than any run without a
\* repeated frame needs (a node frame per node and an output frame per node)
MaxDepth == 2 * MaxNodes + 2

\* a call that goes one level deeper; the stack of the model holds MaxDepth
\* frames, a call beyond that is recorded as "overflow"
pushFrame(g, frame) ==
  IF Len(g.stack) >= MaxDepth THEN [g EXCEPT !.status = "overflow"]
  ELSE [g EXCEPT !.stack = Append(g.stack, frame)]

\* generateNodeCode without `if (processed.has(node.id)) return ''`
callGenerateNodeCode_noCheck(g, n) ==
  LET g1     == [g EXCEPT !.processed = g.processed \cup {n.id}]
      def    == findNodeType(n.type)
      execIn == IF def = NULL THEN NULL
                ELSE Find(def.inputs, LAMBDA i : i.type = "exec")
  IN IF def = NULL THEN returnAtOnce(g1, "node", n, NULL, <<>>)
     ELSE IF execIn = NULL THEN returnAtOnce(g1, "node", n, NULL, <<>>)
     ELSE IF ~hasCode(execIn) THEN returnAtOnce(g1, "node", n, NULL, <<>>)
     ELSE pushFrame([g1 EXCEPT !.expanded = Append(g1.expanded, n)],
                    [kind |-> "node", node |-> n, port |-> NULL,
                     data |-> dataInputLinks(n), exec |-> execOutputLinks(n),
                     code |-> replaceValue(execIn.code, n), loop |-> "none",
                     at |-> 0])

\* generateNodeCode without `processed.add(node.id)`
callGenerateNodeCode_noAdd(g, n) ==
  IF n.id \in g.processed THEN returnAtOnce(g, "node", n, NULL, <<>>)
  ELSE
    LET def    == findNodeType(n.type)
        execIn == IF def = NULL THEN NULL
                  ELSE Find(def.inputs, LAMBDA i : i.type = "exec")
    IN IF def = NULL THEN returnAtOnce(g, "node", n, NULL, <<>>)
       ELSE IF execIn = NULL THEN returnAtOnce(g, "node", n, NULL, <<>>)
       ELSE IF ~hasCode(execIn) THEN returnAtOnce(g, "node", n, NULL, <<>>)
       ELSE pushFrame([g EXCEPT !.expanded = Append(g.expanded, n)],
                      [kind |-> "node", node |-> n, port |-> NULL,
                       data |-> dataInputLinks(n), exec |-> execOutputLinks(n),
                       code |-> replaceValue(execIn.code, n), loop |-> "none",
                       at |-> 0])

\* the call generateNodeCode(n, processed) made in state g of the generator
callGenerateNodeCode(g, n) ==
  IF n.id \in g.processed THEN returnAtOnce(g, "node", n, NULL, <<>>)
  ELSE
    LET g1     == [g EXCEPT !.processed = g.processed \cup {n.id}]
        def    == findNodeType(n.type)
        execIn == IF def = NULL THEN NULL
                  ELSE Find(def.inputs, LAMBDA i : i.type = "exec")
    IN IF def = NULL THEN returnAtOnce(g1, "node", n, NULL, <<>>)
       ELSE IF execIn = NULL THEN returnAtOnce(g1, "node", n, NULL, <<>>)
       ELSE IF ~hasCode(execIn) THEN returnAtOnce(g1, "node", n, NULL, <<>>)
       ELSE pushFrame([g1 EXCEPT !.expanded = Append(g1.expanded, n)],
                      [kind |-> "node", node |-> n, port |-> NULL,
                       data |-> dataInputLinks(n), exec |-> execOutputLinks(n),
                       code |-> replaceValue(execIn.code, n), loop |-> "none",
                       at |-> 0])

\* getNodeOutputCode with a guard: it returns '' for a node whose output code
\* is being resolved further down the stack
callGetNodeOutputCode_guarded(g, n, port) ==
  LET def    == findNodeType(n.type)
      outDef == IF def = NULL THEN NULL
                ELSE Find(def.outputs,
                          LAMBDA o : o.name = port.name \/ o.type = port.type)
  IN IF def = NULL THEN returnAtOnce(g, "out", n, port, <<>>)
     ELSE IF outDef = NULL THEN returnAtOnce(g, "out", n, port, <<>>)
     ELSE IF ~hasCode(outDef) THEN returnAtOnce(g, "out", n, port, <<>>)
     ELSE IF \E k \in DOMAIN g.stack :
               g.stack[k].kind = "out" /\ g.stack[k].node = n
          THEN returnAtOnce(g, "out", n, port, <<>>)
     ELSE pushFrame(g, [kind |-> "out", node |-> n, port |-> port,
                        data |-> dataInputLinks(n), exec |-> <<>>,
                        code |-> replaceValue(outDef.code, n), loop |-> "none",
                        at |-> 0])

\* the call getNodeOutputCode(n, port) made in state g of the generator
callGetNodeOutputCode(g, n, port) ==
  LET def    == findNodeType(n.type)
      outDef == IF def = NULL THEN NULL
                ELSE Find(def.outputs,
                          LAMBDA o : o.name = port.name \/ o.type = port.type)
  IN IF def = NULL THEN returnAtOnce(g, "out", n, port, <<>>)
     ELSE IF outDef = NULL THEN returnAtOnce(g, "out", n, port, <<>>)
     ELSE IF ~hasCode(outDef) THEN returnAtOnce(g, "out", n, port, <<>>)
     ELSE pushFrame(g, [kind |-> "out", node |-> n, port |-> port,
                        data |-> dataInputLinks(n), exec |-> <<>>,
                        code |-> replaceValue(outDef.code, n), loop |-> "none",
                        at |-> 0])

-----------------------------------------------------------------------------
(* Inputs *)

DocIds == {0, 1}

PortIndexes == {0, 1}

\* a connection id above the connection's position: the counter has to be moved
\* past it, and two connections of a document share it
DocLinkIds == {1}

SavedNodes == [id : DocIds, category : Categories, type : TypeNames]

Endpoints == [nodeId : DocIds, portIndex : PortIndexes, portType : {"input", "output"}]

SavedConnections == [id : DocLinkIds, from : Endpoints, to : Endpoints]

GraphDocs ==
  [nodes : SeqUpTo(SavedNodes, MaxDocNodes),
   connections : SeqUpTo(SavedConnections, MaxDocConns)]

\* documents whose nodes may carry a value
ValuedNodes ==
  SavedNodes \cup [id : DocIds, category : Categories, type : {"any"}, value : {5}]

ValuedDocs ==
  [nodes : SeqUpTo(ValuedNodes, MaxDocNodes),
   connections : SeqUpTo(SavedConnections, MaxDocConns)]

\* ports of node objects that are no longer in the graph: what the context
\* menu's pendingSource holds when its node was removed while the menu was open
RemovedPorts ==
  IF registryLoaded
  THEN UNION {PortsOf(GraphNodeImpl(-1, 0, c, t)) :
                c \in DOMAIN nodeCategories, t \in {"flow", "any"}}
  ELSE {}

\* the id history before any node exists.  ever: the ids that nodes of this
\* editor had before the last operation; graph: those of them given since the
\* last store.clear(); created: the ids of the nodes the last operation
\* created, in the order of creation
NoIds == [ever |-> {}, graph |-> {}, created |-> <<>>]

\* the history after an operation that created nodes with the ids `created`;
\* cleared tells whether the operation began with store.clear()
logIds(log, cleared, created) ==
  [ever    |-> log.ever \cup Range(log.created),
   graph   |-> IF cleared THEN {} ELSE log.graph \cup Range(log.created),
   created |-> created]

-----------------------------------------------------------------------------
(* Actions *)

Init ==
  /\ registryLoaded = FALSE
  /\ nodeCategories = <<>>
  /\ nodes = <<>>
  /\ links = <<>>
  /\ nodeIdCounter = 0
  /\ linkIdCounter = 0
  /\ removedLinks = <<>>
  /\ gen = GenIdle
  /\ idLog = NoIds

\* addRegistry after which the nodes hold the ports of their type's current
\* definition (nodes that share the definition's port arrays)
AddRegistry_sharedPorts(registry) ==
  /\ nodeCategories' = addRegistry(nodeCategories, registry)
  /\ registryLoaded' = TRUE
  /\ nodes' = [i \in DOMAIN nodes |->
                [nodes[i] EXCEPT
                   !.inputs  = explicitPorts(nodeCategories'[nodes[i].category][nodes[i].type].inputs),
                   !.outputs = explicitPorts(nodeCategories'[nodes[i].category][nodes[i].type].outputs)]]
  /\ UNCHANGED <<links, nodeIdCounter, linkIdCounter, removedLinks, gen>>

AddRegistry(registry) ==
  /\ nodeCategories' = addRegistry(nodeCategories, registry)
  /\ registryLoaded' = TRUE
  /\ UNCHANGED <<nodes, links, nodeIdCounter, linkIdCounter, removedLinks, gen>>

\* addNode whose constructor does not throw on a lookup miss: the node is
\* pushed with the fields set before the lookup
AddNode_noThrow(category, type) ==
  /\ nodeIdCounter < MaxCounter
  /\ Len(nodes) < MaxNodes
  /\ nodeIdCounter' = nodeIdCounter + 1
  /\ LET node == IF HasDef(category, type)
                 THEN GraphNodeImpl(FreshRef(nodes), nodeIdCounter, category, type)
                 ELSE [ref |-> FreshRef(nodes), id |-> nodeIdCounter,
                       category |-> category, type |-> type,
                       hasValue |-> FALSE, value |-> NULL,
                       inputs |-> <<>>, outputs |-> <<>>]
     IN \E v \in {validateConnections(Append(nodes, node), links)} :
          /\ nodes' = Append(nodes, node)
          /\ links' = v.links
          /\ removedLinks' = v.removed
  /\ UNCHANGED <<registryLoaded, nodeCategories, linkIdCounter, gen>>

\* addNode(category, type, x, y)
AddNode(category, type) ==
  /\ nodeIdCounter < MaxCounter
  /\ Len(nodes) < MaxNodes
  /\ nodeIdCounter' = nodeIdCounter + 1
  /\ IF HasDef(category, type)
     THEN LET node == GraphNodeImpl(FreshRef(nodes), nodeIdCounter, category, type)
          IN \E v \in {validateConnections(Append(nodes, node), links)} :
               /\ nodes' = Append(nodes, node)
               /\ links' = v.links
               /\ removedLinks' = v.removed
     ELSE UNCHANGED <<nodes, links, removedLinks>>
  /\ UNCHANGED <<registryLoaded, nodeCategories, linkIdCounter, gen>>

\* _onMouseUp while connecting, released on a port that canConnect accepts
DragConnect(from, to) ==
  /\ linkIdCounter < MaxCounter
  /\ canConnect(links, from, to)
  /\ \E v \in {validateConnections(nodes,
                 createConnection(links, linkIdCounter, from, to))} :
       /\ links' = v.links
       /\ removedLinks' = v.removed
  /\ linkIdCounter' = linkIdCounter + 1
  /\ UNCHANGED <<registryLoaded, nodeCategories, nodes, nodeIdCounter, gen, idLog>>

\* a click on a context menu item: _createNodeAtContextMenu(category, type)
\* with store.ui.contextMenu.pendingSource = sourcePort
CreateNodeAtContextMenu(category, type, sourcePort) ==
  /\ nodeIdCounter < MaxCounter
  /\ linkIdCounter < MaxCounter
  /\ Len(nodes) < MaxNodes
  /\ HasDef(category, type)
  /\ sourcePort # NULL => hasCompatiblePort(nodeCategories[category][type], sourcePort)
  /\ LET newNode == GraphNodeImpl(FreshRef(nodes), nodeIdCounter, category, type)
         ns      == Append(nodes, newNode)
     IN \E v \in {validateConnections(ns, links)} :
        \E auto \in {IF sourcePort = NULL
                      THEN [links |-> v.links, linkIdCounter |-> linkIdCounter,
                            emitted |-> FALSE, removed |-> <<>>]
                      ELSE autoConnectToNewNode(ns, v.links, linkIdCounter,
                                                newNode, sourcePort)} :
          /\ nodes' = ns
          /\ links' = auto.links
          /\ linkIdCounter' = auto.linkIdCounter
          /\ removedLinks' = IF auto.emitted THEN auto.removed
                             ELSE v.removed
  /\ nodeIdCounter' = nodeIdCounter + 1
  /\ UNCHANGED <<registryLoaded, nodeCategories, gen>>

\* _onMouseDown, right button on the link at position i
DeleteLink(i) ==
  /\ i \in DOMAIN links
  /\ \E v \in {validateConnections(nodes,
                 SubSeqAt(links, SelectSeq(Indices(links), LAMBDA j : j # i)))} :
       /\ links' = v.links
       /\ removedLinks' = v.removed
  /\ UNCHANGED <<registryLoaded, nodeCategories, nodes, nodeIdCounter, linkIdCounter,
                 gen, idLog>>

\* keydown Delete/Backspace: _deleteSelectedNodes(); _deleteSelectedLinks()
DeleteKey(sel, selPos) ==
  /\ sel # {} \/ selPos # {}
  /\ \E dn \in {deleteSelectedNodes(nodes, links, sel)} :
       \* the selected links that are still there, by their new positions
       LET still == {k \in DOMAIN dn.kept : dn.kept[k] \in selPos}
       IN \E dl \in {deleteSelectedLinks(dn.nodes, dn.links, still)} :
            /\ nodes' = dn.nodes
            /\ links' = dl.links
            /\ removedLinks' = IF dl.emitted THEN dl.removed
                               ELSE IF dn.emitted THEN dn.removed
                               ELSE removedLinks
  /\ UNCHANGED <<registryLoaded, nodeCategories, nodeIdCounter, linkIdCounter, gen>>

\* clearGraph: store.clear(), then _emitGraphChanged on the empty graph
ClearGraph ==
  /\ nodes' = <<>>
  /\ links' = <<>>
  /\ nodeIdCounter' = 0
  /\ linkIdCounter' = 0
  /\ removedLinks' = <<>>
  /\ UNCHANGED <<registryLoaded, nodeCategories, gen>>

\* loadGraph starts with store.clear(), so what it leaves does not depend on
\* the graph it replaces: it is taken from the cleared store, which
\* clearGraph reaches from every state
LoadGraph(graph) ==
  /\ \E st \in {loadGraph(graph)} :
     \E v \in {validateConnections(st.nodes, st.links)} :
       /\ nodes' = st.nodes
       /\ links' = v.links
       /\ nodeIdCounter' = st.nodeIdCounter
       /\ linkIdCounter' = st.linkIdCounter
       /\ removedLinks' = v.removed
  /\ UNCHANGED <<registryLoaded, nodeCategories, gen>>

StoreCleared ==
  nodes = <<>> /\ links = <<>> /\ nodeIdCounter = 0 /\ linkIdCounter = 0

\* _emitGraphChanged alone: select all, the end of a node drag or of a
\* selection box
EmitGraphChanged ==
  /\ \E v \in {validateConnections(nodes, links)} :
       /\ links' = v.links
       /\ removedLinks' = v.removed
  /\ UNCHANGED <<registryLoaded, nodeCategories, nodes, nodeIdCounter, linkIdCounter,
                 gen, idLog>>

\* the id history is kept by SpecIds only
Next ==
  \/ /\ \E registry \in Registries : AddRegistry(registry)
     /\ UNCHANGED idLog
  \/ /\ \E c \in Categories, t \in TypeNames : AddNode(c, t)
     /\ UNCHANGED idLog
  \/ \E from \in GraphPorts(nodes), to \in GraphPorts(nodes) : DragConnect(from, to)
  \/ /\ \E c \in Categories, t \in TypeNames,
           sourcePort \in {NULL} \cup GraphPorts(nodes) \cup RemovedPorts :
          CreateNodeAtContextMenu(c, t, sourcePort)
     /\ UNCHANGED idLog
  \/ \E i \in DOMAIN links : DeleteLink(i)
  \/ /\ \E sel \in SUBSET Range(nodes),
           selPos \in {p \in SUBSET DOMAIN links : Cardinality(p) <= MaxSelLinks} :
          DeleteKey(sel, selPos)
     /\ UNCHANGED idLog
  \/ ClearGraph /\ UNCHANGED idLog
  \/ StoreCleared /\ UNCHANGED idLog /\ \E graph \in GraphDocs : LoadGraph(graph)
  \/ EmitGraphChanged

Spec == Init /\ [][Next]_vars

-----------------------------------------------------------------------------
(* exportGraph, and a reload of what it returns.  Positions are not part of  *)
(* the node records of the model.  `value: n.value` is absent from the       *)
(* document when the value is undefined; in the graphs of the model a node   *)
(* has a value exactly when its definition has a value slot.                 *)

serializeNode(n) ==
  IF n.hasValue
  THEN [id |-> n.id, type |-> n.type, category |-> n.category, value |-> n.value]
  ELSE [id |-> n.id, type |-> n.type, category |-> n.category]

serializeEndpoint(portInfo) ==
  [nodeId |-> portInfo.node.id, portIndex |-> portInfo.index,
   portType |-> portInfo.type]

serializeConnection(l) ==
  [id |-> l.id, from |-> serializeEndpoint(l.fromPort),
   to |-> serializeEndpoint(l.toPort)]

exportGraph(ns, ls) ==
  [nodes       |-> [i \in DOMAIN ns |-> serializeNode(ns[i])],
   connections |-> [i \in DOMAIN ls |-> serializeConnection(ls[i])]]

-----------------------------------------------------------------------------
(* The code generator on graphs built in the editor.  The catalog has code  *)
(* templates; the graphs are built by addNode, by drags that canConnect     *)
(* accepts and by loadGraph of small documents.                             *)

PortWithCode(kind, name, code) == [type |-> kind, name |-> name, code |-> code]

\* a statement: exec input with a template, data input, data output with a
\* template, exec output
StmtDef ==
  [inputs  |-> <<PortWithCode("exec", "in",
                   <<"run">> \o Placeholder("nodeId") \o <<"(">>
                   \o Placeholder("x") \o <<");", NL>> \o Placeholder("next")),
                 Port("data", "x")>>,
   outputs |-> <<PortWithCode("data", "y",
                   <<"f(">> \o Placeholder("x") \o <<")">>),
                 Port("exec", "next")>>]

\* a value source: no exec port, data output with a template
ValDef ==
  [inputs  |-> <<Port("data", "d")>>,
   outputs |-> <<PortWithCode("data", "o",
                   <<"g(">> \o Placeholder("d") \o <<")">>)>>]

\* an exec input without a template
LabelDef ==
  [inputs  |-> <<Port("exec", "in")>>,
   outputs |-> <<Port("exec", "next")>>]

GenRegistry == [gen |-> [stmt |-> StmtDef, val |-> ValDef, label |-> LabelDef]]

GenTypeNames == {"stmt", "val", "label"}

GenDocEndpoints(dir) == [nodeId : DocIds, portIndex : PortIndexes, portType : {dir}]

\* documents of statements, with connections from outputs to inputs
GenDocs ==
  [nodes : SeqUpTo([id : DocIds, category : {"gen"}, type : {"stmt"}], MaxDocNodes),
   connections : SeqUpTo([id : DocLinkIds, from : GenDocEndpoints("output"),
                          to : GenDocEndpoints("input")], MaxDocConns)]

\* generate() up to the compilation of the entries
\* generate() that takes the entries with an in-place reverse of store.nodes
GenerateStart_reversesNodes ==
  /\ gen.status = "idle"
  /\ nodes' = [i \in DOMAIN nodes |-> nodes[Len(nodes) + 1 - i]]
  /\ LET entries == SelectSeq(nodes', isEntry)
     IN gen' = IF entries = <<>>
               THEN [GenIdle EXCEPT !.status = "failed"]
               ELSE [GenIdle EXCEPT !.status = "running", !.entries = entries]
  /\ UNCHANGED <<registryLoaded, nodeCategories, links, nodeIdCounter,
                 linkIdCounter, removedLinks, idLog>>

GenerateStart ==
  /\ gen.status = "idle"
  /\ LET entries == SelectSeq(nodes, isEntry)
     IN gen' = IF entries = <<>>
               THEN [GenIdle EXCEPT !.status = "failed"]
               ELSE [GenIdle EXCEPT !.status = "running", !.entries = entries]
  /\ UNCHANGED <<registryLoaded, nodeCategories, nodes, links, nodeIdCounter,
                 linkIdCounter, removedLinks, idLog>>

\* entries.map: generateNodeCode(e, processed) for the next entry
CompileEntry ==
  /\ gen.status = "running" /\ gen.stack = <<>> /\ gen.entries # <<>>
  /\ gen' = callGenerateNodeCode([gen EXCEPT !.entries = Tail(gen.entries)],
                                 Head(gen.entries))
  /\ UNCHANGED <<registryLoaded, nodeCategories, nodes, links, nodeIdCounter,
                 linkIdCounter, removedLinks, idLog>>

\* generateNodeCode, one round of the data-input loop
NodeDataInput ==
  /\ gen.status = "running" /\ gen.stack # <<>>
  /\ top(gen).kind = "node" /\ top(gen).data # <<>>
  /\ LET l == links[Head(top(gen).data)]
     IN gen' = callGetNodeOutputCode(nextData(gen), l.fromPort.node, l.fromPort.port)
  /\ UNCHANGED <<registryLoaded, nodeCategories, nodes, links, nodeIdCounter,
                 linkIdCounter, removedLinks, idLog>>

\* generateNodeCode, one round of the exec-output loop
NodeExecOutput ==
  /\ gen.status = "running" /\ gen.stack # <<>>
  /\ top(gen).kind = "node" /\ top(gen).data = <<>> /\ top(gen).exec # <<>>
  /\ LET l == links[Head(top(gen).exec)]
     IN gen' = callGenerateNodeCode(nextExec(gen), l.toPort.node)
  /\ UNCHANGED <<registryLoaded, nodeCategories, nodes, links, nodeIdCounter,
                 linkIdCounter, removedLinks, idLog>>

\* getNodeOutputCode, one round of its loop
OutDataInput ==
  /\ gen.status = "running" /\ gen.stack # <<>>
  /\ top(gen).kind = "out" /\ top(gen).data # <<>>
  /\ LET l == links[Head(top(gen).data)]
     IN gen' = callGetNodeOutputCode(nextData(gen), l.fromPort.node, l.fromPort.port)
  /\ UNCHANGED <<registryLoaded, nodeCategories, nodes, links, nodeIdCounter,
                 linkIdCounter, removedLinks, idLog>>

\* generateNodeCode or getNodeOutputCode returns to its caller
FrameReturn ==
  /\ gen.status = "running" /\ gen.stack # <<>>
  /\ top(gen).data = <<>> /\ top(gen).exec = <<>>
  /\ LET f == top(gen)
     IN \E ret \in {IF f.kind = "node"
                    THEN stripPlaceholders(replaceNodeId(f.code, f.node.id))
                    ELSE replaceNodeId(f.code, f.node.id)} :
          gen' = returnAtOnce(
                 [gen EXCEPT !.stack = SubSeq(gen.stack, 1, Len(gen.stack) - 1)],
                 f.kind, f.node, f.port, ret)
  /\ UNCHANGED <<registryLoaded, nodeCategories, nodes, links, nodeIdCounter,
                 linkIdCounter, removedLinks, idLog>>

\* new Date().toISOString(), as a word
Timestamps == {"2024-01-01T00:00:00.000Z", "2024-01-02T00:00:00.000Z"}

\* the header comment of the generated text
Header(date) ==
  <<"// Generated Code from Node Graph", NL, "// Generated on: ", date, NL, NL>>

\* Array.prototype.join
RECURSIVE join(_, _)
join(texts, sep) ==
  IF texts = <<>> THEN <<>>
  ELSE IF Len(texts) = 1 THEN texts[1]
  ELSE texts[1] \o sep \o join(Tail(texts), sep)

\* generate() returns buf: the header and the parts that are not empty,
\* with a blank line between two of them
GenerateFinish ==
  /\ gen.status = "running" /\ gen.stack = <<>> /\ gen.entries = <<>>
  /\ \E date \in Timestamps :
       gen' = [gen EXCEPT
                 !.status = "done",
                 !.buf = Header(date)
                         \o join(SelectSeq(gen.parts, LAMBDA t : t # <<>>),
                                 <<NL, NL>>)]
  /\ UNCHANGED <<registryLoaded, nodeCategories, nodes, links, nodeIdCounter,
                 linkIdCounter, removedLinks, idLog>>

\* exportCode hands the text, or the error, to its caller
ExportCodeReturn ==
  /\ gen.status \in {"done", "failed"}
  /\ gen' = GenIdle
  /\ UNCHANGED <<registryLoaded, nodeCategories, nodes, links, nodeIdCounter,
                 linkIdCounter, removedLinks, idLog>>

GenStep ==
  \/ CompileEntry
  \/ NodeDataInput
  \/ NodeExecOutput
  \/ OutDataInput
  \/ FrameReturn
  \/ GenerateFinish

\* the handlers run only between generate() calls
NextGen ==
  \/ gen.status = "idle" /\ UNCHANGED idLog /\ AddRegistry([nodeCategories |-> GenRegistry])
  \/ gen.status = "idle" /\ UNCHANGED idLog
        /\ \E t \in GenTypeNames : AddNode("gen", t)
  \/ gen.status = "idle"
        /\ \E from \in GraphPorts(nodes), to \in GraphPorts(nodes) :
             DragConnect(from, to)
  \/ gen.status = "idle" /\ UNCHANGED idLog
        /\ StoreCleared /\ \E graph \in GenDocs : LoadGraph(graph)
  \/ gen.status = "idle" /\ UNCHANGED idLog /\ ClearGraph
  \/ GenerateStart
  \/ GenStep
  \/ ExportCodeReturn

SpecGen == Init /\ [][NextGen]_vars

\* a call that has started goes on: the generator is the only code running
SpecGenFair == SpecGen /\ WF_vars(GenStep)

-----------------------------------------------------------------------------
(* The code generator on loaded documents of statements whose connections   *)
(* name any port of either direction at either end.                          *)

AnyEndDocs ==
  [nodes : SeqUpTo([id : DocIds, category : {"gen"}, type : {"stmt"}], MaxDocNodes),
   connections : SeqUpTo([id : DocLinkIds, from : Endpoints, to : Endpoints],
                         MaxDocConns)]

NextAnyEnd ==
  \/ gen.status = "idle" /\ ~registryLoaded /\ UNCHANGED idLog
        /\ AddRegistry([nodeCategories |-> GenRegistry])
  \/ gen.status = "idle" /\ registryLoaded /\ StoreCleared /\ UNCHANGED idLog
        /\ \E graph \in AnyEndDocs : LoadGraph(graph)
  \/ GenerateStart
  \/ GenStep
  \/ ExportCodeReturn

SpecAnyEnd == Init /\ [][NextAnyEnd]_vars

-----------------------------------------------------------------------------
(* The code generator on a catalog in which two categories define the type   *)
(* name "stmt": a statement in the first, a value source with another        *)
(* output template in the second.                                            *)

FirstStmtDef ==
  [inputs  |-> <<PortWithCode("exec", "in",
                   <<"first">> \o Placeholder("nodeId") \o <<"(">>
                   \o Placeholder("x") \o <<");", NL>> \o Placeholder("next")),
                 Port("data", "x")>>,
   outputs |-> <<PortWithCode("data", "y", <<"y1">>), Port("exec", "next")>>]

SecondStmtDef ==
  [inputs  |-> <<Port("data", "x")>>,
   outputs |-> <<PortWithCode("data", "y", <<"y2">>)>>]

TwoCategoryRegistry ==
  [nodeCategories |-> [first  |-> [stmt |-> FirstStmtDef],
                       second |-> [stmt |-> SecondStmtDef]]]

\* documents of nodes of either category, connections from outputs to inputs
TwoCategoryDocs ==
  [nodes : SeqUpTo([id : DocIds, category : {"first", "second"}, type : {"stmt"}],
                   MaxDocNodes),
   connections : SeqUpTo([id : DocLinkIds, from : GenDocEndpoints("output"),
                          to : GenDocEndpoints("input")], MaxDocConns)]

NextTwoCategories ==
  \/ gen.status = "idle" /\ ~registryLoaded /\ UNCHANGED idLog
        /\ AddRegistry(TwoCategoryRegistry)
  \/ gen.status = "idle" /\ registryLoaded /\ StoreCleared /\ UNCHANGED idLog
        /\ \E graph \in TwoCategoryDocs : LoadGraph(graph)
  \/ GenerateStart
  \/ GenStep
  \/ ExportCodeReturn

SpecTwoCategories == Init /\ [][NextTwoCategories]_vars

-----------------------------------------------------------------------------
(* The code generator on templates and node values.  The catalog has a       *)
(* statement type, a two-input operation and a constant; the templates of    *)
(* the first two and the values of the constants are drawn from small sets,  *)
(* the graph is loaded from a document: two constants feed the operation,    *)
(* the operation feeds the first of two statements in a row.                 *)

\* exec-input templates of the statement type
EmitTemplates ==
  { <<"emit(">> \o Placeholder("a") \o <<");", NL>> \o Placeholder("next"),
    <<"print(">> \o Placeholder("nodeId") \o <<");", NL, " ", " ">>
      \o Placeholder("next"),
    <<"$">> \o Placeholder("a") \o <<"{", "next", "}">> }

\* output templates of the operation
OpTemplates ==
  { Placeholder("A") \o <<" ", "+", " ">> \o Placeholder("B"),
    <<"op">> \o Placeholder("nodeId") \o <<"(">> \o Placeholder("A")
      \o <<",">> \o Placeholder("B") \o <<")">>,
    Placeholder("value") \o Placeholder("B") \o Placeholder("A") }

\* values of a constant: numbers and strings
TextValues ==
  { [num |-> 5], [num |-> 3], [str |-> <<"$", "$">>], [str |-> <<"$", "&">>],
    [str |-> Placeholder("B")] }

EmitDef(template) ==
  [inputs  |-> <<PortWithCode("exec", "in", template), Port("data", "a")>>,
   outputs |-> <<Port("exec", "next")>>]

OpDef(template) ==
  [inputs  |-> <<Port("data", "A"), Port("data", "B")>>,
   outputs |-> <<PortWithCode("data", "r", template)>>]

ConstDef ==
  [inputs  |-> <<>>,
   outputs |-> <<PortWithCode("data", "o", Placeholder("value"))>>,
   value   |-> [type |-> "string", default |-> [str |-> <<>>]]]

TextRegistries ==
  { [nodeCategories |->
       [text |-> [emit |-> EmitDef(e), op |-> OpDef(o), const |-> ConstDef]]] :
    e \in EmitTemplates, o \in OpTemplates }

TextEndpoint(id, index, dir) ==
  [nodeId |-> id, portIndex |-> index, portType |-> dir]

TextConnection(id, from, to) == [id |-> id, from |-> from, to |-> to]

\* the document: statements 0 and 1, operation 2, constants 3 and 4
TextDocs ==
  { [nodes |->
       << [id |-> 0, category |-> "text", type |-> "emit"],
          [id |-> 1, category |-> "text", type |-> "emit"],
          [id |-> 2, category |-> "text", type |-> "op"],
          [id |-> 3, category |-> "text", type |-> "const", value |-> va],
          [id |-> 4, category |-> "text", type |-> "const", value |-> vb] >>,
     connections |->
       << TextConnection(0, TextEndpoint(3, 0, "output"), TextEndpoint(2, 0, "input")),
          TextConnection(1, TextEndpoint(4, 0, "output"), TextEndpoint(2, 1, "input")),
          TextConnection(2, TextEndpoint(2, 0, "output"), TextEndpoint(0, 1, "input")),
          TextConnection(3, TextEndpoint(0, 0, "output"), TextEndpoint(1, 0, "input")) >>] :
    va \in TextValues, vb \in TextValues }

NextText ==
  \/ gen.status = "idle" /\ ~registryLoaded /\ UNCHANGED idLog
        /\ \E registry \in TextRegistries : AddRegistry(registry)
  \/ gen.status = "idle" /\ registryLoaded /\ StoreCleared /\ UNCHANGED idLog
        /\ \E graph \in TextDocs : LoadGraph(graph)
  \/ GenerateStart
  \/ GenStep
  \/ ExportCodeReturn

SpecText == Init /\ [][NextText]_vars

-----------------------------------------------------------------------------
(* The code generator on a node type with two outputs of one kind: a pair    *)
(* with outputs "p" and "q", and a statement that reads two values.  In the  *)
(* documents pair 3 feeds pair 2, pair 2 feeds both inputs of statement 0,   *)
(* statement 0 is followed by statement 1; each data connection starts at    *)
(* either output.                                                            *)

PairDef ==
  [inputs  |-> <<Port("data", "d")>>,
   outputs |-> <<PortWithCode("data", "p",
                   <<"P(">> \o Placeholder("d") \o <<")">>),
                 PortWithCode("data", "q",
                   <<"Q(">> \o Placeholder("d") \o <<")">>)>>]

UseDef ==
  [inputs  |-> <<PortWithCode("exec", "in",
                   <<"use(">> \o Placeholder("a") \o <<",">>
                   \o Placeholder("b") \o <<");", NL>> \o Placeholder("next")),
                 Port("data", "a"), Port("data", "b")>>,
   outputs |-> <<Port("exec", "next")>>]

PairRegistry ==
  [nodeCategories |-> [outs |-> [pair |-> PairDef, use |-> UseDef]]]

PairDocs ==
  { [nodes |->
       << [id |-> 0, category |-> "outs", type |-> "use"],
          [id |-> 1, category |-> "outs", type |-> "use"],
          [id |-> 2, category |-> "outs", type |-> "pair"],
          [id |-> 3, category |-> "outs", type |-> "pair"] >>,
     connections |->
       << TextConnection(0, TextEndpoint(3, i, "output"), TextEndpoint(2, 0, "input")),
          TextConnection(1, TextEndpoint(2, j, "output"), TextEndpoint(0, 1, "input")),
          TextConnection(2, TextEndpoint(2, k, "output"), TextEndpoint(0, 2, "input")),
          TextConnection(3, TextEndpoint(0, 0, "output"), TextEndpoint(1, 0, "input")) >>] :
    i \in PortIndexes, j \in PortIndexes, k \in PortIndexes }

NextPair ==
  \/ gen.status = "idle" /\ ~registryLoaded /\ UNCHANGED idLog
        /\ AddRegistry(PairRegistry)
  \/ gen.status = "idle" /\ registryLoaded /\ StoreCleared /\ UNCHANGED idLog
        /\ \E graph \in PairDocs : LoadGraph(graph)
  \/ GenerateStart
  \/ GenStep
  \/ ExportCodeReturn

SpecPair == Init /\ [][NextPair]_vars

-----------------------------------------------------------------------------
(* The code generator on rows of statements.  The catalog has a statement    *)
(* whose template is drawn from a small set, a last statement without exec   *)
(* output and a statement without template.  In the documents statement 0    *)
(* is followed by statement 1 and that by node 2, of any of the three types, *)
(* which may be linked back to statement 1.  These graphs have no data       *)
(* links.                                                                    *)

\* exec-input templates of the statement: the placeholder on a line of its
\* own, indented between two lines, after a tab and a blank, and twice
StepTemplates ==
  { <<"print(">> \o Placeholder("nodeId") \o <<");", NL>> \o Placeholder("next"),
    <<"{", NL, " ", " ">> \o Placeholder("next") \o <<NL, "}">>,
    <<"a;", "\t", " ">> \o Placeholder("next"),
    <<"if", " ">> \o Placeholder("next") \o <<" ", "else", NL, "\t">>
      \o Placeholder("next") }

StepDef(template) ==
  [inputs  |-> <<PortWithCode("exec", "in", template)>>,
   outputs |-> <<Port("exec", "next")>>]

DoneDef ==
  [inputs  |-> <<PortWithCode("exec", "in", <<"done();">>)>>,
   outputs |-> <<>>]

FlowRegistries ==
  { [nodeCategories |->
       [flow |-> [step |-> StepDef(t), done |-> DoneDef, label |-> LabelDef]]] :
    t \in StepTemplates }

FlowDocs ==
  { [nodes |->
       << [id |-> 0, category |-> "flow", type |-> "step"],
          [id |-> 1, category |-> "flow", type |-> "step"],
          [id |-> 2, category |-> "flow", type |-> t] >>,
     connections |->
       << TextConnection(0, TextEndpoint(0, 0, "output"), TextEndpoint(1, 0, "input")),
          TextConnection(1, TextEndpoint(1, 0, "output"), TextEndpoint(2, 0, "input")) >>
       \o back] :
    t \in {"step", "done", "label"},
    back \in {<<>>, <<TextConnection(2, TextEndpoint(2, 0, "output"),
                                     TextEndpoint(1, 0, "input"))>>} }

NextFlow ==
  \/ gen.status = "idle" /\ ~registryLoaded /\ UNCHANGED idLog
        /\ \E registry \in FlowRegistries : AddRegistry(registry)
  \/ gen.status = "idle" /\ registryLoaded /\ StoreCleared /\ UNCHANGED idLog
        /\ \E graph \in FlowDocs : LoadGraph(graph)
  \/ GenerateStart
  \/ CompileEntry
  \/ NodeExecOutput
  \/ FrameReturn
  \/ GenerateFinish
  \/ ExportCodeReturn

SpecFlow == Init /\ [][NextFlow]_vars

-----------------------------------------------------------------------------
(* The validator on a store populated directly.  store.nodes and store.links *)
(* are public collections; validateConnections is specified for any content *)
(* of them, so here the store starts with any of the link lists below and   *)
(* the only step is a validation pass.                                      *)

StoreNodes ==
  <<[ref |-> 0, id |-> 0, category |-> "basic", type |-> "flow",
     inputs |-> FlowDef.inputs, outputs |-> FlowDef.outputs],
    [ref |-> 1, id |-> 1, category |-> "basic", type |-> "flow",
     inputs |-> FlowDef.inputs, outputs |-> FlowDef.outputs],
    [ref |-> 2, id |-> 2, category |-> "basic", type |-> "any",
     inputs |-> AnyDef.inputs, outputs |-> AnyDef.outputs]>>

\* where a link of the populated store starts: the outputs of the first node
\* and of the wildcard node, and an exec input used as a start
StoreFromPorts ==
  {PortInfo(StoreNodes[1], "output", 0), PortInfo(StoreNodes[1], "output", 1),
   PortInfo(StoreNodes[3], "output", 0), PortInfo(StoreNodes[1], "input", 0)}

\* where it ends: the inputs of the second node and of the wildcard node, and
\* an exec output used as an end
StoreToPorts ==
  {PortInfo(StoreNodes[2], "input", 0), PortInfo(StoreNodes[2], "input", 1),
   PortInfo(StoreNodes[3], "input", 0), PortInfo(StoreNodes[2], "output", 0)}

StoreLinkLists ==
  {[k \in DOMAIN e |-> GraphLinkImpl(k - 1, e[k][1], e[k][2])] :
     e \in SeqUpTo(StoreFromPorts \X StoreToPorts, MaxStoreLinks)}

\* the node list with any of the nodes missing
StoreNodeLists ==
  {SubSeqAt(StoreNodes, SelectSeq(Indices(StoreNodes), LAMBDA i : i \in keep)) :
     keep \in SUBSET DOMAIN StoreNodes}

InitStore ==
  /\ registryLoaded = TRUE
  /\ nodeCategories = BaseRegistry
  /\ nodes \in StoreNodeLists
  /\ links \in StoreLinkLists
  /\ nodeIdCounter = Len(StoreNodes)
  /\ linkIdCounter = Len(links)
  /\ removedLinks = <<>>
  /\ gen = GenIdle
  /\ idLog = NoIds

NextStore == EmitGraphChanged

SpecStore == InitStore /\ [][NextStore]_vars

-----------------------------------------------------------------------------
(* The editor with several registries: definitions that are overwritten,    *)
(* categories that are added, legacy node types, implicit ports             *)

ImplicitPort(kind, name) == [type |-> kind, name |-> name, implicit |-> TRUE]

\* a second definition of basic/flow, with an implicit port
FlowDef2 ==
  [inputs  |-> <<Port("exec", "in"), ImplicitPort("float", "ctx"), Port("data", "d")>>,
   outputs |-> <<Port("exec", "next")>>]

\* a legacy definition, filed under the category it names
AnyDef2 ==
  [category |-> "basic",
   inputs   |-> <<Port("float", "a")>>,
   outputs  |-> <<Port("float", "r"), Port("exec", "next")>>]

OverwriteRegistry ==
  [nodeCategories |-> [basic |-> [flow |-> FlowDef2], extra |-> [any |-> AnyDef]]]

LegacyRegistry == [nodeTypes |-> [any |-> AnyDef2, free |-> FlowDef]]

CatalogRegistries == Registries \cup {OverwriteRegistry, LegacyRegistry}

CatalogCategories == {"basic", "extra", "default"}

CatalogTypes == {"flow", "any", "free"}

NextCatalog ==
  \/ /\ \E registry \in CatalogRegistries : AddRegistry(registry)
     /\ UNCHANGED idLog
  \/ /\ Len(nodes) < MaxCatalogNodes
     /\ \E c \in CatalogCategories, t \in CatalogTypes : AddNode(c, t)
     /\ UNCHANGED idLog
  \/ \E from \in GraphPorts(nodes), to \in GraphPorts(nodes) : DragConnect(from, to)
  \/ \E i \in DOMAIN links : DeleteLink(i)
  \/ /\ \E sel \in SUBSET Range(nodes) : DeleteKey(sel, {})
     /\ UNCHANGED idLog
  \/ EmitGraphChanged

SpecCatalog == Init /\ [][NextCatalog]_vars

-----------------------------------------------------------------------------
(* The editor with the history of node ids: the operations that create and  *)
(* remove nodes                                                             *)

\* documents without connections
NodeDocs == [nodes : SeqUpTo(SavedNodes, MaxDocNodes), connections : {<<>>}]

\* the ids of the nodes appended to ns
appendedIds(ns, ns2) ==
  [i \in 1..(Len(ns2) - Len(ns)) |-> ns2[Len(ns) + i].id]

NextIds ==
  \/ /\ \E registry \in Registries : AddRegistry(registry)
     /\ idLog' = logIds(idLog, FALSE, <<>>)
  \/ /\ \E c \in Categories, t \in TypeNames : AddNode(c, t)
     /\ idLog' = logIds(idLog, FALSE, appendedIds(nodes, nodes'))
  \/ /\ \E c \in Categories, t \in TypeNames : CreateNodeAtContextMenu(c, t, NULL)
     /\ idLog' = logIds(idLog, FALSE, appendedIds(nodes, nodes'))
  \/ /\ \E sel \in SUBSET Range(nodes) : DeleteKey(sel, {})
     /\ idLog' = logIds(idLog, FALSE, <<>>)
  \/ /\ ClearGraph
     /\ idLog' = logIds(idLog, TRUE, <<>>)
  \/ /\ \E graph \in NodeDocs : LoadGraph(graph)
     /\ idLog' = logIds(idLog, TRUE, appendedIds(<<>>, nodes'))

SpecIds == Init /\ [][NextIds]_vars

-----------------------------------------------------------------------------
(* Graph invariants *)

SamePort(p, q) == p.node = q.node /\ p.type = q.type /\ p.index = q.index

InGraph(n) == n \in Range(nodes)

\* C1: after every mutation and its validation pass no non-exec input port is
\* the end of two links, and canConnect refuses every connection, in either
\* argument order, to a non-exec input port that is already the end of a link
C1_DataInputSingleLink ==
  /\ \A i, j \in DOMAIN links :
       (/\ links[i].toPort.type = "input"
        /\ links[i].toPort.port.type # "exec"
        /\ SamePort(links[i].toPort, links[j].toPort)) => i = j
  /\ \A i \in DOMAIN links :
       (links[i].toPort.type = "input" /\ links[i].toPort.port.type # "exec")
         => \A q \in GraphPorts(nodes) :
              /\ ~canConnect(links, q, links[i].toPort)
              /\ ~canConnect(links, links[i].toPort, q)

\* a non-exec input holds a link while an output of a third node, of a
\* compatible type and not yet connected to it, is there to be dragged onto it
C1_Witness ==
  \E i \in DOMAIN links, q \in GraphPorts(nodes) :
    /\ links[i].toPort.type = "input"
    /\ links[i].toPort.port.type # "exec"
    /\ links[i].fromPort.type = "output"
    /\ links[i].fromPort.node # links[i].toPort.node
    /\ q.type = "output"
    /\ q.node # links[i].toPort.node
    /\ q.node # links[i].fromPort.node
    /\ canConnectTypes(q.port.type, links[i].toPort.port.type)

\* C2: after every mutation and its validation pass no exec output port is the
\* start of two links
C2_ExecOutputSingleLink ==
  \A i, j \in DOMAIN links :
    (/\ links[i].fromPort.type = "output"
     /\ links[i].fromPort.port.type = "exec"
     /\ SamePort(links[i].fromPort, links[j].fromPort)) => i = j

\* the last validation pass removed a link that started at an exec output
\* which still is the start of a link
C2_Witness ==
  \E k \in DOMAIN removedLinks, i \in DOMAIN links :
    /\ links[i].fromPort.type = "output"
    /\ links[i].fromPort.port.type = "exec"
    /\ SamePort(links[i].fromPort, removedLinks[k].fromPort)
    /\ InGraph(removedLinks[k].toPort.node)

\* C3: after every mutation and its validation pass both end nodes of every
\* link are in store.nodes
C3_NoDanglingLinks ==
  \A i \in DOMAIN links :
    InGraph(links[i].fromPort.node) /\ InGraph(links[i].toPort.node)

\* the last validation pass removed a link with an end node outside the graph
\* and left a link in the graph
C3_Witness ==
  /\ links # <<>>
  /\ \E k \in DOMAIN removedLinks :
       ~(InGraph(removedLinks[k].fromPort.node) /\ InGraph(removedLinks[k].toPort.node))

\* C4: after every mutation and its validation pass the port types of every
\* link are compatible, start type to end type
C4_LinksTypeCompatible ==
  \A i \in DOMAIN links :
    canConnectTypes(links[i].fromPort.port.type, links[i].toPort.port.type)

\* the last validation pass removed a link between two nodes of the graph
\* whose port types are not compatible, and left a link in the graph
C4_Witness ==
  /\ links # <<>>
  /\ \E k \in DOMAIN removedLinks :
       /\ InGraph(removedLinks[k].fromPort.node)
       /\ InGraph(removedLinks[k].toPort.node)
       /\ ~canConnectTypes(removedLinks[k].fromPort.port.type,
                           removedLinks[k].toPort.port.type)

\* C5: after every mutation, loadGraph of any document included, no link has
\* both ends on one node
C5_NoSelfLinks ==
  \A i \in DOMAIN links : links[i].fromPort.node # links[i].toPort.node

\* C6: after every mutation, loadGraph of any document included, every link
\* starts at an output port and ends at an input port
C6_OutputToInput ==
  \A i \in DOMAIN links :
    links[i].fromPort.type = "output" /\ links[i].toPort.type = "input"

\* C7: after every mutation and its validation pass no two links have the
\* same start port and the same end port
C7_NoDuplicateLinks ==
  \A i, j \in DOMAIN links :
    (/\ SamePort(links[i].fromPort, links[j].fromPort)
     /\ SamePort(links[i].toPort, links[j].toPort)) => i = j

\* the last validation pass removed a link with the start port and the end
\* port of a link it left
C7_Witness ==
  \E k \in DOMAIN removedLinks, i \in DOMAIN links :
    /\ SamePort(links[i].fromPort, removedLinks[k].fromPort)
    /\ SamePort(links[i].toPort, removedLinks[k].toPort)

\* C8: whatever nodes are selected, deleting the selected nodes removes the
\* selected nodes and no other node, and the links with an end on a selected
\* node and no other link
C8_DeleteExactlySelected ==
  \A sel \in (SUBSET Range(nodes)) \ {{}} :
    LET d == deleteSelectedNodes(nodes, links, sel)
    IN /\ d.nodes = SelectSeq(nodes, LAMBDA n : n \notin sel)
       /\ d.kept = SelectSeq(Indices(links), LAMBDA i :
                      /\ links[i].fromPort.node \notin sel
                      /\ links[i].toPort.node \notin sel)

-----------------------------------------------------------------------------
(* The validator *)

\* C9: for every graph, a validation pass run right after a validation pass
\* returns the empty list and leaves store.links as the first pass left it
C9_ValidateIdempotent ==
  LET first  == validateConnections(nodes, links)
      second == validateConnections(nodes, first.links)
  IN second.removed = <<>> /\ second.links = first.links

\* a validation pass took two or more links out of a store and left a link
C9_Witness == Len(removedLinks) >= 2 /\ links # <<>>

Dangling(l) == ~(InGraph(l.fromPort.node) /\ InGraph(l.toPort.node))

Incompatible(l) == ~canConnectTypes(l.fromPort.port.type, l.toPort.port.type)

Passes(l) == ~Dangling(l) /\ ~Incompatible(l)

\* an earlier link that passes leaves the exec port this link leaves
LaterFromExecOutput(i) ==
  /\ Passes(links[i])
  /\ links[i].fromPort.port.type = "exec"
  /\ \E j \in 1..(i - 1) :
       Passes(links[j]) /\ SamePort(links[j].fromPort, links[i].fromPort)

\* an earlier link that passes enters the non-exec port this link enters
LaterIntoDataInput(i) ==
  /\ Passes(links[i])
  /\ links[i].toPort.port.type # "exec"
  /\ \E j \in 1..(i - 1) :
       Passes(links[j]) /\ SamePort(links[j].toPort, links[i].toPort)

ToRemove(i) ==
  \/ Dangling(links[i])
  \/ Incompatible(links[i])
  \/ LaterFromExecOutput(i)
  \/ LaterIntoDataInput(i)

\* C10: a validation pass removes, and returns once each, the links with an
\* end node outside the graph, the links of incompatible port types and,
\* among the others, every link but the first of those leaving one exec port
\* and every link but the first of those entering one non-exec port; it
\* removes no other link and keeps the others in their order
C10_RemovesExactly ==
  LET v == validateConnections(nodes, links)
      invalid == invalidLinks(nodes, links)
  IN /\ v.kept = SelectSeq(Indices(links), LAMBDA i : ~ToRemove(i))
     /\ Range(invalid) = {i \in DOMAIN links : ToRemove(i)}
     /\ Len(invalid) = Cardinality(Range(invalid))

-----------------------------------------------------------------------------
(* canConnect and canConnectTypes *)

OutputOf(a, b) == IF a.type = "output" THEN a ELSE b

InputOf(a, b) == IF a.type = "input" THEN a ELSE b

\* the conditions under which a connection of a and b is legal
Legal(a, b) ==
  /\ a.node # b.node
  /\ a.type # b.type
  /\ canConnectTypes(OutputOf(a, b).port.type, InputOf(a, b).port.type)
  /\ ~\E i \in DOMAIN links :
        /\ SamePort(links[i].fromPort, OutputOf(a, b))
        /\ SamePort(links[i].toPort, InputOf(a, b))
  /\ InputOf(a, b).port.type # "exec"
       => ~\E i \in DOMAIN links : SamePort(links[i].toPort, InputOf(a, b))

\* C11: canConnect(from, to) is true exactly when the ports are on different
\* nodes, one is an output and the other an input, the output's type is
\* compatible with the input's, no link joins that output port to that input
\* port and, for a non-exec input, no link ends at that input
C11_CanConnectExactly ==
  \A a, b \in GraphPorts(nodes) : canConnect(links, a, b) <=> Legal(a, b)

KindNames == {"exec", "float", "bool", "data"}

\* C12: for all type names f and t, those of the graph's ports among them,
\* canConnectTypes(f, t) is true exactly when f = t, or t is 'data' and f is
\* not 'exec'
C12_TypesCompatibleTable ==
  \A f, t \in KindNames \cup {p.port.type : p \in GraphPorts(nodes)} :
    canConnectTypes(f, t) <=> (f = t \/ (t = "data" /\ f # "exec"))

\* the graph holds a link from a float output into a 'data' input, and the
\* last validation pass removed a link from a 'data' output into a float input
C12_Witness ==
  /\ \E i \in DOMAIN links :
       /\ links[i].fromPort.port.type = "float"
       /\ links[i].toPort.port.type = "data"
  /\ \E k \in DOMAIN removedLinks :
       /\ InGraph(removedLinks[k].fromPort.node)
       /\ InGraph(removedLinks[k].toPort.node)
       /\ removedLinks[k].fromPort.port.type = "data"
       /\ removedLinks[k].toPort.port.type = "float"

\* C13: in every state, for every two ports a and b, of the graph or of a
\* removed node, canConnect(a, b) = canConnect(b, a)
C13_CanConnectSymmetric ==
  \A a, b \in GraphPorts(nodes) \cup RemovedPorts :
    canConnect(links, a, b) <=> canConnect(links, b, a)

\* the graph has links, an input and an output of different types that
\* canConnect accepts in both argument orders, and an input and an output of
\* compatible types that it refuses in both
C13_Witness ==
  /\ links # <<>>
  /\ \E a, b \in GraphPorts(nodes) :
       /\ a.type = "input" /\ b.type = "output"
       /\ a.port.type # b.port.type
       /\ canConnect(links, a, b) /\ canConnect(links, b, a)
  /\ \E a, b \in GraphPorts(nodes) :
       /\ a.type = "input" /\ b.type = "output"
       /\ a.node # b.node
       /\ canConnectTypes(b.port.type, a.port.type)
       /\ ~canConnect(links, a, b) /\ ~canConnect(links, b, a)

\* the exec output among a and b already is the start of a link
ReconnectsExecOutput(a, b) ==
  /\ canConnect(links, a, b)
  /\ OutputOf(a, b).port.type = "exec"
  /\ \E i \in DOMAIN links : SamePort(links[i].fromPort, OutputOf(a, b))

\* C14: when a drag from an exec output that already is the start of a link
\* is accepted by canConnect, then after _createConnection and the validation
\* pass the new link is in the graph and is the only link starting at that port
C14_ReconnectReplaces ==
  \A a, b \in GraphPorts(nodes) :
    ReconnectsExecOutput(a, b) =>
      LET cc == createConnection(links, linkIdCounter, a, b)
          v  == validateConnections(nodes, cc)
      IN /\ Len(cc) \in Range(v.kept)
         /\ \A k \in Range(v.kept) :
              SamePort(cc[k].fromPort, OutputOf(a, b)) => k = Len(cc)

\* an exec output is the start of a link made by a drag, and an exec input of
\* a third node is there to take the output's link over
C14_Witness ==
  /\ linkIdCounter >= 1
  /\ \E i \in DOMAIN links, b \in GraphPorts(nodes) :
       /\ links[i].fromPort.type = "output"
       /\ b.node # links[i].toPort.node
       /\ ReconnectsExecOutput(links[i].fromPort, b)

\* the links of ls that end at port q, in order
LinksInto(ls, q) == SelectSeq(ls, LAMBDA l : SamePort(l.toPort, q))

\* a drag accepted by canConnect into an exec input leaves the links that
\* ended there, and the validation pass keeps them next to the new one
DragKeepsExecInputLinks ==
  \A a, b \in GraphPorts(nodes) :
    (canConnect(links, a, b) /\ InputOf(a, b).port.type = "exec") =>
      LET cc == createConnection(links, linkIdCounter, a, b)
          v  == validateConnections(nodes, cc)
      IN LinksInto(v.links, InputOf(a, b))
           = Append(LinksInto(links, InputOf(a, b)), cc[Len(cc)])

\* a node created from the context menu with an exec input as the pending
\* source leaves the links that ended at that input
AutoConnectKeepsExecInputLinks ==
  \A sourcePort \in GraphPorts(nodes), c \in Categories, t \in TypeNames :
    (/\ sourcePort.type = "input"
     /\ sourcePort.port.type = "exec"
     /\ HasDef(c, t)
     /\ hasCompatiblePort(nodeCategories[c][t], sourcePort)) =>
      LET newNode == GraphNodeImpl(FreshRef(nodes), nodeIdCounter, c, t)
          ns      == Append(nodes, newNode)
          v       == validateConnections(ns, links)
          auto    == autoConnectToNewNode(ns, v.links, linkIdCounter,
                                          newNode, sourcePort)
      IN \A i \in DOMAIN links :
           SamePort(links[i].toPort, sourcePort) => links[i] \in Range(auto.links)

\* C15: a new link into an exec input, made by a drag or by the auto-connect
\* of a node created from the context menu, removes none of the links that
\* end at that exec input, and the validation pass that follows removes none
\* of them either
C15_ExecInputUnlimited ==
  DragKeepsExecInputLinks /\ AutoConnectKeepsExecInputLinks

\* C16: when the pair of ports that the auto-connect of a node created from
\* the context menu attempts is refused by canConnect, the links of the graph
\* after the attempt and its validation pass are the links before it (a drag
\* refused by canConnect creates nothing: _onMouseUp only opens the menu)
C16_IllegalAttemptRejected ==
  \A sourcePort \in GraphPorts(nodes), c \in Categories, t \in TypeNames :
    (HasDef(c, t) /\ hasCompatiblePort(nodeCategories[c][t], sourcePort)) =>
      LET newNode == GraphNodeImpl(FreshRef(nodes), nodeIdCounter, c, t)
          ns      == Append(nodes, newNode)
          v       == validateConnections(ns, links)
          pair    == autoConnectPorts(newNode, sourcePort)
          auto    == autoConnectToNewNode(ns, v.links, linkIdCounter,
                                          newNode, sourcePort)
      IN (pair # NULL /\ ~canConnect(v.links, pair.fromPort, pair.toPort))
           => auto.links = links

-----------------------------------------------------------------------------
(* The code generator *)

\* the node's definition has an exec input and no link ends at an exec input
\* of the node
EntryNode(n) ==
  /\ \E c \in DOMAIN nodeCategories :
       /\ n.type \in DOMAIN nodeCategories[c]
       /\ \E i \in DOMAIN nodeCategories[c][n.type].inputs :
            nodeCategories[c][n.type].inputs[i].type = "exec"
  /\ ~\E i \in DOMAIN links :
        /\ links[i].toPort.node = n
        /\ links[i].toPort.type = "input"
        /\ links[i].toPort.port.type = "exec"

HasEntry == \E i \in DOMAIN nodes : EntryNode(nodes[i])

\* the nodes whose output feeds a data input of n
DataSources(n) ==
  {links[i].fromPort.node : i \in {j \in DOMAIN links :
      links[j].toPort.node = n /\ links[j].toPort.port.type # "exec"}}

\* the nodes that n's data inputs depend on, over k data links or fewer
RECURSIVE DataAncestors(_, _)
DataAncestors(n, k) ==
  IF k = 0 THEN {}
  ELSE DataSources(n) \cup UNION {DataAncestors(m, k - 1) : m \in DataSources(n)}

OnDataCycle(n) == n \in DataAncestors(n, Len(nodes))

DataCycle == \E i \in DOMAIN nodes : OnDataCycle(nodes[i])

C18_ExpandedAtMostOnce ==
  /\ \A i, j \in DOMAIN gen.expanded :
       gen.expanded[i].id = gen.expanded[j].id => i = j
  /\ \A i \in DOMAIN gen.expanded : gen.expanded[i].id \in gen.processed

\* generate() has returned after compiling three nodes, the last of which has
\* an exec link back to the second
C18_Witness ==
  /\ gen.status = "done"
  /\ Len(gen.expanded) = 3
  /\ \E i \in DOMAIN links :
       /\ links[i].fromPort.port.type = "exec"
       /\ links[i].fromPort.node = gen.expanded[3]
       /\ links[i].toPort.node = gen.expanded[2]

\* C19: on a graph whose data links form no cycle, whatever its exec links,
\* a generate() call that has started compiling returns
C19_TerminatesWithoutDataCycle ==
  (gen.status = "running" /\ ~DataCycle) ~> (gen.status = "done")

\* generate() has returned on a graph without a cycle of data links in which
\* a compiled node reads a data input and an exec link leads back to a node
\* compiled no later than its source
C19_Witness ==
  /\ gen.status = "done"
  /\ ~DataCycle
  /\ \E i \in DOMAIN gen.expanded : DataSources(gen.expanded[i]) # {}
  /\ \E i, j \in DOMAIN gen.expanded :
       /\ j <= i
       /\ \E k \in DOMAIN links :
            /\ links[k].fromPort.port.type = "exec"
            /\ links[k].toPort.port.type = "exec"
            /\ links[k].fromPort.node = gen.expanded[i]
            /\ links[k].toPort.node = gen.expanded[j]

\* the node reads, directly or through other nodes' data inputs, the output
\* of a node that lies on a cycle of data links
ReadsDataCycle(n) ==
  OnDataCycle(n) \/ \E m \in DataAncestors(n, Len(nodes)) : OnDataCycle(m)

\* the same getNodeOutputCode call is on the stack twice
RepeatedOutputCall ==
  \E i, j \in DOMAIN gen.stack :
    /\ i < j
    /\ gen.stack[i].kind = "out"
    /\ gen.stack[j].kind = "out"
    /\ gen.stack[i].node = gen.stack[j].node
    /\ gen.stack[i].port = gen.stack[j].port

\* C20: a generate() call that compiled a node whose data inputs lead into a
\* cycle of data links never returns, and a call that runs out of stack has
\* the same getNodeOutputCode call on the stack twice
C20_DataCycleNeverReturns ==
  /\ gen.status = "done" =>
       \A i \in DOMAIN gen.expanded : ~ReadsDataCycle(gen.expanded[i])
  /\ gen.status = "overflow" => RepeatedOutputCall

\* two links made by dragging in a fresh editor close a cycle of data links
\* between two nodes, and generate() has run out of stack on it
C20_Witness ==
  /\ gen.status = "overflow"
  /\ Len(nodes) = 2
  /\ Len(links) = 2
  /\ links[1].id = 0
  /\ links[2].id = 1
  /\ \A k \in DOMAIN links :
       /\ links[k].fromPort.type = "output"
       /\ links[k].toPort.type = "input"
       /\ links[k].fromPort.port.type = "data"
       /\ links[k].toPort.port.type = "data"
       /\ links[k].fromPort.node # links[k].toPort.node
  /\ links[1].fromPort.node = links[2].toPort.node
  /\ links[2].fromPort.node = links[1].toPort.node

-----------------------------------------------------------------------------
(* Identity: ids and counters *)

\* C23 as stated: a node created by addNode, by the context menu or by
\* loadGraph never receives an id that an earlier node of the editor had
C23_IdsNeverReused ==
  \A i \in DOMAIN idLog.created :
    /\ idLog.created[i] \notin idLog.ever
    /\ \A j \in 1..(i - 1) : idLog.created[j] # idLog.created[i]

\* C23 amended: a node created by addNode or by the context menu never
\* receives an id that a node of the graph has, or had, since the store was
\* last cleared (by clearGraph, by loadGraph, or at construction), and every
\* id given since then is below the counter
C23_IdsNotReusedInGraph ==
  /\ \A i \in DOMAIN idLog.created : idLog.created[i] \notin idLog.graph
  /\ \A id \in idLog.graph \cup Range(idLog.created) : id < nodeIdCounter

\* a node has just been created in a graph from which a node was deleted
\* after a document was loaded
C23_Witness ==
  /\ Len(idLog.created) = 1
  /\ nodes # <<>>
  /\ idLog.created[1] = nodes[Len(nodes)].id
  /\ idLog.created[1] = nodeIdCounter - 1
  /\ \E id \in idLog.graph : \A i \in DOMAIN nodes : nodes[i].id # id
  /\ Cardinality(idLog.graph) >= 2

\* C24: in every state, after loadGraph and after every other operation,
\* nodeIdCounter is above the id of every node of the graph and
\* linkIdCounter is above the id of every link of the graph
C24_CountersAboveIds ==
  /\ \A i \in DOMAIN nodes : nodes[i].id < nodeIdCounter
  /\ \A i \in DOMAIN links : links[i].id < linkIdCounter

\* a loaded document whose first node and only link have id 1, above their
\* positions, with a node and a link created after the load
C24_Witness ==
  /\ Len(nodes) >= 2
  /\ nodes[1].id = 1
  /\ nodes[Len(nodes)].id = 2
  /\ nodeIdCounter = 3
  /\ Len(links) = 2
  /\ links[1].id = 1
  /\ links[2].id = 2
  /\ linkIdCounter = 3

-----------------------------------------------------------------------------
(* loadGraph *)

\* the document node's (category, type) is in the loaded catalog
Known(sNode) ==
  /\ registryLoaded
  /\ sNode.category \in DOMAIN nodeCategories
  /\ sNode.type \in DOMAIN nodeCategories[sNode.category]

\* the ports a node of the document node's type has, by direction
DocPorts(sNode, dir) ==
  LET def == nodeCategories[sNode.category][sNode.type]
  IN IF dir = "output" THEN def.outputs ELSE def.inputs

\* the document nodes an endpoint's node id names
Named(graph, ep) ==
  {i \in DOMAIN graph.nodes : Known(graph.nodes[i]) /\ graph.nodes[i].id = ep.nodeId}

\* the kinds of the port an endpoint names
EndpointKinds(graph, ep) ==
  {DocPorts(graph.nodes[i], ep.portType)[ep.portIndex + 1].type :
     i \in {j \in Named(graph, ep) :
              ep.portIndex + 1 \in DOMAIN DocPorts(graph.nodes[j], ep.portType)}}

\* the endpoint names a node that was loaded and a port that node has
Resolvable(graph, ep) == EndpointKinds(graph, ep) # {}

\* every node the endpoint may name has the port
Resolved(graph, ep) ==
  /\ Named(graph, ep) # {}
  /\ \A i \in Named(graph, ep) :
       ep.portIndex + 1 \in DOMAIN DocPorts(graph.nodes[i], ep.portType)

\* the connection at position k resolves and violates no graph invariant: an
\* output to an input of another node, kinds compatible, and no other
\* resolvable connection of the document leaves the same exec output or
\* enters the same non-exec input
Sound(graph, k) ==
  LET c == graph.connections[k]
  IN /\ Resolved(graph, c.from) /\ Resolved(graph, c.to)
     /\ c.from.portType = "output" /\ c.to.portType = "input"
     /\ c.from.nodeId # c.to.nodeId
     /\ \A f \in EndpointKinds(graph, c.from), t \in EndpointKinds(graph, c.to) :
          f = t \/ (t = "data" /\ f # "exec")
     /\ \A j \in DOMAIN graph.connections \ {k} :
          LET d == graph.connections[j]
          IN (Resolvable(graph, d.from) /\ Resolvable(graph, d.to)) =>
               /\ ~(d.from = c.from /\ "exec" \in EndpointKinds(graph, c.from))
               /\ ~(d.to = c.to /\ EndpointKinds(graph, c.to) # {"exec"})

\* the link was made from the connection
Restores(link, c) ==
  /\ link.id = c.id
  /\ link.fromPort.node.id = c.from.nodeId
  /\ link.fromPort.type = c.from.portType
  /\ link.fromPort.index = c.from.portIndex
  /\ link.toPort.node.id = c.to.nodeId
  /\ link.toPort.type = c.to.portType
  /\ link.toPort.index = c.to.portIndex

\* what the claim says of the graph that loadGraph leaves for a document
LoadRecovers(graph) ==
  LET st    == loadGraph(graph)
      after == validateConnections(st.nodes, st.links).links
      kept  == SelectSeq(graph.nodes, Known)
  IN /\ Len(st.nodes) = Len(kept)
     /\ \A i \in DOMAIN kept :
          /\ st.nodes[i].id = kept[i].id
          /\ st.nodes[i].category = kept[i].category
          /\ st.nodes[i].type = kept[i].type
          /\ "value" \in DOMAIN kept[i] => st.nodes[i].value = kept[i].value
     /\ \A j \in DOMAIN after :
          /\ after[j].fromPort.node \in Range(st.nodes)
          /\ after[j].toPort.node \in Range(st.nodes)
          /\ \E k \in DOMAIN graph.connections :
               /\ Restores(after[j], graph.connections[k])
               /\ Resolvable(graph, graph.connections[k].from)
               /\ Resolvable(graph, graph.connections[k].to)
     /\ \A k \in DOMAIN graph.connections :
          Sound(graph, k) => \E j \in DOMAIN after : Restores(after[j], graph.connections[k])

\* C25: loadGraph of any document leaves the document's nodes of known type,
\* in order, with their ids and values; every link it leaves restores a
\* connection whose endpoints name a loaded node and a port of it; and every
\* connection that resolves and violates no graph invariant is restored
C25_LoadRecoversPerEntity ==
  StoreCleared => \A graph \in ValuedDocs : LoadRecovers(graph)

-----------------------------------------------------------------------------
(* Node construction and the catalog *)

\* C26: an addNode call whose (category, type) is not in the loaded catalog,
\* or that is made before a registry is loaded, leaves the nodes and the
\* links of the graph as they were
C26_FailedAddNodeAddsNothing ==
  [][(\E c \in Categories, t \in TypeNames : ~HasDef(c, t) /\ AddNode(c, t))
       => (nodes' = nodes /\ links' = links)]_vars

\* a counter value was consumed with no node to show for it, in a graph
\* that has a link
C26_Witness ==
  /\ registryLoaded
  /\ Len(nodes) = 2
  /\ nodes[1].id = 0
  /\ nodes[2].id = 2
  /\ nodeIdCounter = 3
  /\ links # <<>>

\* the (category, type) entries of a category map
EntriesOf(cats) == UNION {{<<c, t>> : t \in DOMAIN cats[c]} : c \in DOMAIN cats}

\* the entries a registry defines, legacy node types under their category
RegistryEntries(registry) ==
  (IF "nodeCategories" \in DOMAIN registry
   THEN EntriesOf(registry.nodeCategories) ELSE {})
  \cup
  (IF "nodeTypes" \in DOMAIN registry
   THEN {<<IF "category" \in DOMAIN registry.nodeTypes[t]
            THEN registry.nodeTypes[t].category ELSE "default", t>> :
           t \in DOMAIN registry.nodeTypes}
   ELSE {})

\* the definition a registry gives to an entry it defines
RegistryDef(registry, e) ==
  IF "nodeTypes" \in DOMAIN registry /\ e[2] \in DOMAIN registry.nodeTypes
  THEN registry.nodeTypes[e[2]]
  ELSE registry.nodeCategories[e[1]][e[2]]

NonImplicit(ports) ==
  SelectSeq(ports, LAMBDA p : ~("implicit" \in DOMAIN p /\ p.implicit))

\* kinds and names of a port sequence, in order
Shape(ports) == [i \in DOMAIN ports |-> <<ports[i].type, ports[i].name>>]

\* C28: a node object that a step keeps has the same input and output ports
\* after the step, and a node object that a step creates has the
\* non-implicit ports of its catalog definition, in definition order
C28_PortsFixed ==
  [][\A j \in DOMAIN nodes' :
       IF \E i \in DOMAIN nodes : nodes[i].ref = nodes'[j].ref
       THEN \A i \in DOMAIN nodes :
              nodes[i].ref = nodes'[j].ref =>
                /\ Shape(nodes'[j].inputs) = Shape(nodes[i].inputs)
                /\ Shape(nodes'[j].outputs) = Shape(nodes[i].outputs)
       ELSE LET def == nodeCategories[nodes'[j].category][nodes'[j].type]
            IN /\ Shape(nodes'[j].inputs) = Shape(NonImplicit(def.inputs))
               /\ Shape(nodes'[j].outputs) = Shape(NonImplicit(def.outputs))]_vars

\* a node built from the first definition of basic/flow, linked to a node
\* built from the second one, whose implicit port is left out
C28_Witness ==
  /\ "basic" \in DOMAIN nodeCategories
  /\ "flow" \in DOMAIN nodeCategories["basic"]
  /\ nodeCategories["basic"]["flow"] = FlowDef2
  /\ \E i, j \in DOMAIN nodes :
       /\ nodes[i].type = "flow" /\ nodes[j].type = "flow"
       /\ Shape(nodes[i].inputs) = Shape(FlowDef.inputs)
       /\ Shape(nodes[j].inputs) = <<<<"exec", "in">>, <<"data", "d">>>>
       /\ \E k \in DOMAIN links :
            links[k].fromPort.node = nodes[i] /\ links[k].toPort.node = nodes[j]

-----------------------------------------------------------------------------
(* The code generator and the store *)

\* C22: no step of a generate() call, from its start to its return with text
\* or with the error, changes the catalog, the nodes, the links or the id
\* counters
C22_GenerateMutatesNothing ==
  [][(gen.status # "idle" \/ gen'.status # "idle") =>
       UNCHANGED <<registryLoaded, nodeCategories, nodes, links,
                   nodeIdCounter, linkIdCounter>>]_vars

\* generate() has returned text for a graph of at least two nodes of
\* different ids and two links
C22_Witness ==
  /\ gen.status = "done"
  /\ Len(gen.expanded) >= 2
  /\ Len(nodes) >= 2
  /\ nodes[1] # nodes[Len(nodes)]
  /\ Len(links) >= 2

-----------------------------------------------------------------------------
(* C21 *)

\* the node has an exec input whose definition carries a template
HasExecTemplate(n) ==
  \E c \in DOMAIN nodeCategories :
    /\ n.type \in DOMAIN nodeCategories[c]
    /\ \E i \in DOMAIN nodeCategories[c][n.type].inputs :
         /\ nodeCategories[c][n.type].inputs[i].type = "exec"
         /\ "code" \in DOMAIN nodeCategories[c][n.type].inputs[i]
         /\ \A j \in 1..(i - 1) :
              nodeCategories[c][n.type].inputs[j].type # "exec"

\* the nodes one exec link away from a node that is compiled
ExecSuccessors(n) ==
  IF HasExecTemplate(n)
  THEN {links[i].toPort.node : i \in {j \in DOMAIN links :
          links[j].fromPort.node = n /\ links[j].fromPort.port.type = "exec"}}
  ELSE {}

\* the nodes at most k exec links away from the nodes of S
RECURSIVE ExecReach(_, _)
ExecReach(S, k) ==
  IF k = 0 THEN S
  ELSE ExecReach(S \cup UNION {ExecSuccessors(n) : n \in S}, k - 1)

\* the entry nodes, in graph node order
EntryNodes == SelectSeq(nodes, EntryNode)

\* the entries (as positions of EntryNodes) from which exec links lead to n
ReachingEntries(n) ==
  {k \in DOMAIN EntryNodes : n \in ExecReach({EntryNodes[k]}, Len(nodes))}

\* the number of places of text where the word pat is
Occurrences(text, pat) ==
  Cardinality({i \in DOMAIN text : MatchesAt(text, i, pat)})

\* what the statement template writes for node n, and for no other node
MarkOf(n) == <<"run", ToString(n.id), "(">>

\* C21: when generate() has returned, the compiled parts are those of the
\* entry nodes in graph node order, and every node with an exec template that
\* exec links reach from one or more entries has been expanded exactly once,
\* its text standing once in the part of the first of these entries and in no
\* other part.
C21_SharedNodeInFirstEntry ==
  gen.status = "done" =>
    /\ Len(gen.parts) = Len(EntryNodes)
    /\ \A n \in Range(nodes) :
         HasExecTemplate(n) /\ ReachingEntries(n) # {} =>
           LET first == CHOOSE k \in ReachingEntries(n) :
                          \A j \in ReachingEntries(n) : k <= j
           IN /\ Cardinality({i \in DOMAIN gen.expanded :
                                gen.expanded[i] = n}) = 1
              /\ \A k \in DOMAIN gen.parts :
                   Occurrences(gen.parts[k], MarkOf(n)) =
                     IF k = first THEN 1 ELSE 0

-----------------------------------------------------------------------------
(* C29 *)

\* the text holds a placeholder token: "$", "{", a name of one or more
\* symbols other than "}", and "}"
HasPlaceholder(text) ==
  \E i \in DOMAIN text, j \in DOMAIN text :
    /\ j >= i + 3
    /\ text[i] = "$" /\ text[i + 1] = "{" /\ text[j] = "}"
    /\ \A k \in (i + 2)..(j - 1) : text[k] # "}"

\* C29: no text that generateNodeCode returns holds a placeholder token, and
\* neither does the text that generate() returns.
C29_NoPlaceholderLeaks ==
  /\ gen.returned # NULL /\ gen.returned.kind = "node" =>
       ~HasPlaceholder(gen.returned.code)
  /\ gen.status = "done" => ~HasPlaceholder(gen.buf)

-----------------------------------------------------------------------------
(* C30 *)

\* the catalog definition of the node's type
DefOf(n) ==
  LET cs == {c \in DOMAIN nodeCategories : n.type \in DOMAIN nodeCategories[c]}
  IN nodeCategories[CHOOSE c \in cs : TRUE][n.type]

\* the output definitions that stand for the port: those of its name or kind
OutputDefs(n, port) ==
  {i \in DOMAIN DefOf(n).outputs :
     DefOf(n).outputs[i].name = port.name \/ DefOf(n).outputs[i].type = port.type}

\* the links into data inputs of n that carry the name
DataLinksInto(n, name) ==
  {i \in DOMAIN links :
     /\ links[i].toPort.node = n
     /\ links[i].toPort.port.type # "exec"
     /\ links[i].toPort.port.name = name}

\* the names of the linked data inputs of n
LinkedInputs(n) ==
  {links[i].toPort.port.name : i \in {j \in DOMAIN links :
     links[j].toPort.node = n /\ links[j].toPort.port.type # "exec"}}

\* the placeholder at position i of the template that the claim has replaced,
\* "" when there is none
ReplacedAt(n, template, i) ==
  IF MatchesAt(template, i, <<"$", "{">>) /\ i + 3 <= Len(template)
     /\ template[i + 3] = "}"
     /\ \/ template[i + 2] = "value" /\ n.hasValue /\ n.value # NULL
        \/ template[i + 2] = "nodeId"
        \/ template[i + 2] \in LinkedInputs(n)
  THEN template[i + 2] ELSE ""

\* the template from position i on with every placeholder of the claim
\* replaced, the code of a producing port resolved in the same way; depth
\* bounds the chain of data links followed
RECURSIVE Substituted(_, _, _, _)
Substituted(n, template, i, depth) ==
  IF i > Len(template) THEN <<>>
  ELSE
    LET name == ReplacedAt(n, template, i)
    IN IF name = "" THEN <<template[i]>> \o Substituted(n, template, i + 1, depth)
       ELSE (CASE name = "value" /\ n.hasValue -> ValueText(n.value)
               [] name = "nodeId" -> <<ToString(n.id)>>
               [] OTHER ->
                    LET l   == links[CHOOSE k \in DataLinksInto(n, name) : TRUE]
                        src == l.fromPort.node
                        os  == OutputDefs(src, l.fromPort.port)
                        out == DefOf(src).outputs[CHOOSE o \in os :
                                                   \A q \in os : o <= q]
                    IN IF depth = 0 \/ os = {} \/ "code" \notin DOMAIN out
                       THEN <<>>
                       ELSE Substituted(src, out.code, 1, depth - 1))
            \o Substituted(n, template, i + 4, depth)

\* the output code of the port as the claim has it
ResolvedCode(n, port) ==
  LET os  == OutputDefs(n, port)
      out == DefOf(n).outputs[CHOOSE o \in os : \A q \in os : o <= q]
  IN IF os = {} \/ "code" \notin DOMAIN out THEN <<>>
     ELSE Substituted(n, out.code, 1, Len(nodes))

\* C30: the text a getNodeOutputCode call returns is the output template of
\* the port with every ${value} replaced by the node's value, every
\* placeholder of a linked data input by the resolved code of the producing
\* port, and every ${nodeId} by the node id; the empty text when the port has
\* no template.
C30_OutputCodeIsSubstitution ==
  gen.returned # NULL /\ gen.returned.kind = "out" =>
    gen.returned.code = ResolvedCode(gen.returned.node, gen.returned.port)

-----------------------------------------------------------------------------
(* C37 *)

\* C37: no two nodes of the graph have the same id, and no two links of the
\* graph have the same id.
C37_IdsUnique ==
  /\ \A i, j \in DOMAIN nodes : nodes[i].id = nodes[j].id => i = j
  /\ \A i, j \in DOMAIN links : links[i].id = links[j].id => i = j

-----------------------------------------------------------------------------
(* C36 *)

\* what exportGraph returns after loadGraph of the document
Reexported(doc) ==
  LET st == loadGraph(doc)
      v  == validateConnections(st.nodes, st.links)
  IN exportGraph(st.nodes, v.links)

\* C36: loadGraph of what exportGraph returns restores the same nodes and
\* the same links, in the same order: exportGraph after the reload returns
\* the document it returned before.
C36_RoundTrip ==
  nodeCategories # <<>> =>
    Reexported(exportGraph(nodes, links)) = exportGraph(nodes, links)

-----------------------------------------------------------------------------
(* C32 *)

\* the entry nodes of the claim that are not yet compiled, given how many
\* results entries.map holds and whether a root is being compiled
RemainingEntries ==
  SubSeq(EntryNodes,
         Len(gen.parts) + (IF gen.stack # <<>> THEN 2 ELSE 1), Len(EntryNodes))

\* C32: generate() fails exactly when no node has an exec input in its
\* definition and no link ending at its exec input; otherwise the roots it
\* compiles are these nodes, each once, in graph node order, and no other
\* node: the entries still to compile are the rest of them, and a call
\* stack starts with the entry whose turn it is.
C32_EntriesExactly ==
  /\ gen.status = "failed" => EntryNodes = <<>>
  /\ gen.status \in {"running", "done"} =>
       /\ EntryNodes # <<>>
       /\ Len(gen.parts) + (IF gen.stack # <<>> THEN 1 ELSE 0)
            <= Len(EntryNodes)
       /\ gen.entries = RemainingEntries
       /\ gen.stack # <<>> =>
            /\ gen.stack[1].kind = "node"
            /\ gen.stack[1].node = EntryNodes[Len(gen.parts) + 1]

-----------------------------------------------------------------------------
(* C33 *)

\* the catalog entry the node was constructed from
OwnDef(n) == nodeCategories[n.category][n.type]

\* the node's own definition has an exec input
OwnExecInput(n) ==
  \E i \in DOMAIN OwnDef(n).inputs : OwnDef(n).inputs[i].type = "exec"

\* the templates of the node's own definition: of its exec inputs, of its
\* outputs
OwnTemplates(n, ports) ==
  {ports[i].code : i \in {j \in DOMAIN ports : "code" \in DOMAIN ports[j]}}

\* C33: a node is compiled with the catalog entry of its own (category,
\* type) pair: the roots of generate() have an exec input in their own
\* definition, a text generateNodeCode builds starts as an exec template of
\* the node's own definition does, and an output code that is not empty is
\* an output template of the node's own definition (the output templates of
\* this catalog hold no placeholder).
C33_OwnCategoryDefinition ==
  /\ \A k \in DOMAIN gen.entries : OwnExecInput(gen.entries[k])
  /\ \A k \in DOMAIN gen.stack :
       gen.stack[k].kind = "node" =>
         \E t \in OwnTemplates(gen.stack[k].node,
                               OwnDef(gen.stack[k].node).inputs) :
           Head(gen.stack[k].code) = Head(t)
  /\ gen.returned # NULL /\ gen.returned.kind = "out"
       /\ gen.returned.code # <<>> =>
         gen.returned.code \in OwnTemplates(gen.returned.node,
                                            OwnDef(gen.returned.node).outputs)

-----------------------------------------------------------------------------
(* C34 *)

\* the output definition the claim selects for the port: the one of the
\* port's name, and the first of its kind when none has the name
SelectedOutput(n, port) ==
  LET outs   == OwnDef(n).outputs
      named  == {i \in DOMAIN outs : outs[i].name = port.name}
      ofKind == {i \in DOMAIN outs : outs[i].type = port.type}
      from   == IF named # {} THEN named ELSE ofKind
  IN outs[CHOOSE i \in from : \A j \in from : i <= j]

\* C34: the code getNodeOutputCode returns for an output port comes from
\* the output definition of the port's name: it starts as that template
\* does.
C34_OutputSelectedByName ==
  gen.returned # NULL /\ gen.returned.kind = "out" =>
    Head(gen.returned.code) =
      Head(SelectedOutput(gen.returned.node, gen.returned.port).code)

-----------------------------------------------------------------------------
(* C35 *)

\* the nodes with an exec template whose exec output is linked to their own
\* exec input
SelfLoopNodes ==
  {n \in Range(nodes) :
     /\ HasExecTemplate(n)
     /\ \E i \in DOMAIN links :
          /\ links[i].fromPort.node = n /\ links[i].toPort.node = n
          /\ links[i].fromPort.type = "output" /\ links[i].toPort.type = "input"
          /\ links[i].fromPort.port.type = "exec"
          /\ links[i].toPort.port.type = "exec"}

\* how many times the node has been expanded
TimesExpanded(n) ==
  Cardinality({i \in DOMAIN gen.expanded : gen.expanded[i] = n})

-----------------------------------------------------------------------------
(* Exec-output splicing.                                                     *)

\* where ph first stands in code, 0 when it does not
FirstPlaceholderAt(code, ph) ==
  IF \E i \in 1..Len(code) : MatchesAt(code, i, ph)
  THEN CHOOSE i \in 1..Len(code) :
         MatchesAt(code, i, ph) /\ \A j \in 1..(i - 1) : ~MatchesAt(code, j, ph)
  ELSE 0

\* the blanks and tabs code ends with
TrailingBlanks(code) ==
  LET n == CHOOSE k \in 0..Len(code) :
             /\ \A j \in (Len(code) - k + 1)..Len(code) : code[j] \in {" ", "\t"}
             /\ (k < Len(code) => code[Len(code) - k] \notin {" ", "\t"})
  IN SubSeq(code, Len(code) - n + 1, Len(code))

\* the lines of a text
RECURSIVE LinesOf(_)
LinesOf(text) ==
  IF \E i \in 1..Len(text) : text[i] = NL
  THEN LET i == CHOOSE k \in 1..Len(text) :
                  text[k] = NL /\ \A j \in 1..(k - 1) : text[j] # NL
       IN <<SubSeq(text, 1, i - 1)>> \o LinesOf(SubSeq(text, i + 1, Len(text)))
  ELSE <<text>>

\* every line of a text behind the prefix ind
RECURSIVE PrefixedLines(_, _)
PrefixedLines(lines, ind) ==
  IF Len(lines) = 1 THEN ind \o lines[1]
  ELSE ind \o lines[1] \o <<NL>> \o PrefixedLines(Tail(lines), ind)

\* code with every placeholder ph replaced by the downstream text: each line
\* of it behind the whitespace that preceded the placeholder, a newline before
\* that whitespace kept; an empty downstream text takes the placeholder, the
\* whitespace and the newline away
RECURSIVE Spliced(_, _, _)
Spliced(code, ph, next) ==
  LET i == FirstPlaceholderAt(code, ph)
  IN IF i = 0 THEN code
     ELSE LET before == SubSeq(code, 1, i - 1)
              ind    == TrailingBlanks(before)
              pre    == SubSeq(before, 1, Len(before) - Len(ind))
              nl     == pre # <<>> /\ pre[Len(pre)] = NL
              after  == SubSeq(code, i + Len(ph), Len(code))
          IN (IF next # <<>> THEN pre \o PrefixedLines(LinesOf(next), ind)
              ELSE IF nl THEN SubSeq(pre, 1, Len(pre) - 1)
              ELSE pre)
             \o Spliced(after, ph, next)

\* a generateNodeCode call made for an exec link comes back to the frame
\* below it
ExecCallReturns ==
  /\ gen.status = "running" /\ gen'.status = "running"
  /\ Len(gen.stack) >= 2 /\ Len(gen'.stack) = Len(gen.stack) - 1
  /\ gen.stack[Len(gen.stack) - 1].loop = "exec"

\* a generateNodeCode call made for an exec link comes back at once with ''
ExecCallReturnsAtOnce ==
  /\ gen.status = "running" /\ gen'.status = "running"
  /\ gen.stack # <<>> /\ Len(gen'.stack) = Len(gen.stack)
  /\ top(gen).kind = "node" /\ top(gen).data = <<>> /\ top(gen).exec # <<>>
  /\ gen' # gen

\* the text of a finished run, without its header
Compiled == SubSeq(gen.buf, Len(Header("")) + 1, Len(gen.buf))

\* the graph of the example: print(${nodeId}); and ${next} on the next line,
\* linked to done();
ExampleGraph ==
  /\ "flow" \in DOMAIN nodeCategories
  /\ nodeCategories.flow.step.inputs[1].code =
       <<"print(">> \o Placeholder("nodeId") \o <<");", NL>> \o Placeholder("next")
  /\ \E l \in 1..Len(links) :
       /\ links[l].fromPort.node.id = 1 /\ links[l].toPort.node.type = "done"
  /\ \E l \in 1..Len(links) :
       /\ links[l].fromPort.node.id = 0 /\ links[l].toPort.node.id = 1

\* C31: when the generateNodeCode call made for a linked exec output comes
\* back, the caller's text is its text before with the output's placeholder
\* replaced by the returned text, every line prefixed by the whitespace that
\* preceded the placeholder and a newline before it kept, and with the
\* placeholder, that whitespace and that newline removed when the returned
\* text is empty; the example compiles to print(0); print(1); done(); on
\* three lines.
C31_ExecSplice ==
  /\ [][/\ (ExecCallReturns =>
              top(gen').code =
                Spliced(gen.stack[Len(gen.stack) - 1].code,
                        Placeholder(links[top(gen').at].fromPort.port.name),
                        gen'.returned.code))
         /\ (ExecCallReturnsAtOnce =>
              (/\ gen'.returned.code = <<>>
               /\ top(gen').code =
                    Spliced(top(gen).code,
                            Placeholder(links[top(gen').at].fromPort.port.name),
                            <<>>)))]_vars
  /\ [](gen.status = "done" /\ ExampleGraph =>
          Compiled = <<"print(", "0", ");", NL, "print(", "1", ");", NL, "done();">>)

\* a text of two lines has come back to a placeholder that stands behind
\* whitespace, and an empty text to another
C31_Witness ==
  /\ gen.status = "done"
  /\ Len(links) = 3
  /\ links[3].toPort.node.id = 1
  /\ \E i \in 1..(Len(gen.buf) - 3) :
       SubSeq(gen.buf, i, i + 3) = <<NL, " ", " ", " ">>

====
